---- MODULE Spec2Model ----
(***************************************************************************)
(* Model of github.com/dimatock/crud: the query builder (options.go), the   *)
(* dialects' placeholders (dialect.go, postgres_dialect.go) and the         *)
(* relation mappers (relations: ManyToOne, OneToMany, HasOne).              *)
(*                                                                          *)
(* Text is modelled as a sequence of atoms.  The atoms that matter are "?"  *)
(* (the raw marker), "$" and the decimal digits (the numbered placeholder); *)
(* the literal pieces of the format strings are atoms of their own.         *)
(***************************************************************************)
EXTENDS Integers, Sequences, FiniteSets, TLC

\* ------------------------------------------------------------------ bounds
MaxOps == 2
MaxClauseLen == 2
MaxArgs == 2
MaxSubArgs == 1
MaxWhereArgs == 3
MaxLimit == 1
MaxKey == 2
MaxParents == 2
MaxRelated == 2

\* ------------------------------------------------------------ input domains
Dialects == {"mysql", "sqlite", "postgres"}
Columns == {<<"a">>, <<"b">>}
Values == {1, 2}
ClauseAtoms == {"x", "?"}
Operators == {<<">">>}
LockClauses == {<<"FOR UPDATE">>}
JoinClauses == {<<"INNER JOIN t ON t.a = u.a">>, <<"LEFT JOIN v ON v.b = u.b">>}
SubqueryColumns == {<<"id">>}
SubqueryOperators == {<<"IN">>}
Directions == {<<"ASC">>, <<"DESC">>}
RelationIds == {"rel1", "rel2"}

\* an argument of dynamic type (Go's any): a string or an int
StrArg(s) == [kind |-> "string", v |-> s]
IntArg(n) == [kind |-> "int", v |-> n]

SeqsUpTo(S, n) == UNION {[1..k -> S] : k \in 0..n}
SeqsFromTo(S, m, n) == UNION {[1..k -> S] : k \in m..n}

\* ------------------------------------------------------------------- errors
NilErr == [text |-> "", arg |-> <<>>]
Errorf(text, arg) == [text |-> text, arg |-> arg]

\* ----------------------------------------------------------------- dialects
DigitAtoms == <<"0", "1", "2", "3", "4", "5", "6", "7", "8", "9">>

RECURSIVE Itoa(_)
Itoa(n) == IF n < 10 THEN <<DigitAtoms[n + 1]>>
           ELSE Itoa(n \div 10) \o <<DigitAtoms[(n % 10) + 1]>>

PostgresPlaceholder(idx) == <<"$">> \o Itoa(idx)
MySQLPlaceholder(idx) == <<"?">>
SQLitePlaceholder(idx) == <<"?">>

Placeholder(d, idx) ==
    CASE d = "postgres" -> PostgresPlaceholder(idx)
      [] d = "mysql" -> MySQLPlaceholder(idx)
      [] d = "sqlite" -> SQLitePlaceholder(idx)

\* ------------------------------------------------------------ text helpers
RECURSIVE Join(_, _)
Join(parts, sep) ==
    IF Len(parts) = 0 THEN <<>>
    ELSE IF Len(parts) = 1 THEN parts[1]
    ELSE parts[1] \o sep \o Join(Tail(parts), sep)

Contains(s, atom) == \E i \in 1..Len(s) : s[i] = atom

\* ------------------------------------------------------- statement builders
\* fmt.Sprintf("%d", n) for n >= 0
Sprintd(n) == Itoa(n)

\* DefaultSelectSQL with the lock clause appended before LIMIT and OFFSET
DefaultSelectSQL_LockBeforeLimit(tableName, cols, joins, whereClause, orderByClause, lockClause, limit, offset) ==
    LET s0 == <<"SELECT ">> \o Join(cols, <<", ">>) \o <<" FROM ">> \o tableName
        s1 == IF joins # <<>> THEN s0 \o <<" ">> \o joins ELSE s0
        s2 == IF whereClause # <<>> THEN s1 \o <<" WHERE ">> \o whereClause ELSE s1
        s3 == IF orderByClause # <<>> THEN s2 \o <<" ORDER BY ">> \o orderByClause ELSE s2
        s4 == IF lockClause # <<>> THEN s3 \o <<" ">> \o lockClause ELSE s3
        s5 == IF limit > 0 THEN s4 \o <<" LIMIT ">> \o Sprintd(limit) ELSE s4
        s6 == IF offset > 0 THEN s5 \o <<" OFFSET ">> \o Sprintd(offset) ELSE s5
    IN s6

\* DefaultSelectSQL that writes LIMIT and OFFSET for every bound but a negative
DefaultSelectSQL_ZeroBound(tableName, cols, joins, whereClause, orderByClause, lockClause, limit, offset) ==
    LET s0 == <<"SELECT ">> \o Join(cols, <<", ">>) \o <<" FROM ">> \o tableName
        s1 == IF joins # <<>> THEN s0 \o <<" ">> \o joins ELSE s0
        s2 == IF whereClause # <<>> THEN s1 \o <<" WHERE ">> \o whereClause ELSE s1
        s3 == IF orderByClause # <<>> THEN s2 \o <<" ORDER BY ">> \o orderByClause ELSE s2
        s4 == IF limit >= 0 THEN s3 \o <<" LIMIT ">> \o Sprintd(limit) ELSE s3
        s5 == IF offset >= 0 THEN s4 \o <<" OFFSET ">> \o Sprintd(offset) ELSE s4
        s6 == IF lockClause # <<>> THEN s5 \o <<" ">> \o lockClause ELSE s5
    IN s6

DefaultSelectSQL(tableName, cols, joins, whereClause, orderByClause, lockClause, limit, offset) ==
    LET s0 == <<"SELECT ">> \o Join(cols, <<", ">>) \o <<" FROM ">> \o tableName
        s1 == IF joins # <<>> THEN s0 \o <<" ">> \o joins ELSE s0
        s2 == IF whereClause # <<>> THEN s1 \o <<" WHERE ">> \o whereClause ELSE s1
        s3 == IF orderByClause # <<>> THEN s2 \o <<" ORDER BY ">> \o orderByClause ELSE s2
        s4 == IF limit > 0 THEN s3 \o <<" LIMIT ">> \o Sprintd(limit) ELSE s3
        s5 == IF offset > 0 THEN s4 \o <<" OFFSET ">> \o Sprintd(offset) ELSE s4
        s6 == IF lockClause # <<>> THEN s5 \o <<" ">> \o lockClause ELSE s5
    IN s6

MySQLSelectSQL(tableName, cols, joins, whereClause, orderByClause, lockClause, limit, offset) ==
    DefaultSelectSQL(tableName, cols, joins, whereClause, orderByClause, lockClause, limit, offset)

SQLiteSelectSQL(tableName, cols, joins, whereClause, orderByClause, lockClause, limit, offset) ==
    DefaultSelectSQL(tableName, cols, joins, whereClause, orderByClause, lockClause, limit, offset)

PostgresSelectSQL(tableName, cols, joins, whereClause, orderByClause, lockClause, limit, offset) ==
    DefaultSelectSQL(tableName, cols, joins, whereClause, orderByClause, lockClause, limit, offset)

\* SelectSQL leaving the WHERE clause out
SelectSQL_NoWhere(d, tableName, cols, joins, whereClause, orderByClause, lockClause, limit, offset) ==
    DefaultSelectSQL(tableName, cols, joins, <<>>, orderByClause, lockClause, limit, offset)

SelectSQL(d, tableName, cols, joins, whereClause, orderByClause, lockClause, limit, offset) ==
    CASE d = "postgres" ->
            PostgresSelectSQL(tableName, cols, joins, whereClause, orderByClause, lockClause, limit, offset)
      [] d = "mysql" ->
            MySQLSelectSQL(tableName, cols, joins, whereClause, orderByClause, lockClause, limit, offset)
      [] d = "sqlite" ->
            SQLiteSelectSQL(tableName, cols, joins, whereClause, orderByClause, lockClause, limit, offset)

\* InsertSQL is the same text in the three dialects
InsertSQL(d, tableName, cols, placeholders) ==
    <<"INSERT INTO ">> \o tableName \o <<" (">> \o Join(cols, <<", ">>)
        \o <<") VALUES (">> \o Join(placeholders, <<", ">>) \o <<")">>

\* UpdateSQL filtering on the data column instead of the key column
UpdateSQL_FilterOnName(d, tableName, setClauses, pkColumn, pkPlaceholder) ==
    <<"UPDATE ">> \o tableName \o <<" SET ">> \o setClauses \o <<" WHERE ">>
        \o <<"name">> \o <<" = ">> \o pkPlaceholder

\* UpdateSQL is the same text in the three dialects
UpdateSQL(d, tableName, setClauses, pkColumn, pkPlaceholder) ==
    <<"UPDATE ">> \o tableName \o <<" SET ">> \o setClauses \o <<" WHERE ">>
        \o pkColumn \o <<" = ">> \o pkPlaceholder

\* DeleteSQL filtering on the data column instead of the key column
DeleteSQL_FilterOnName(d, tableName, pkColumn, pkPlaceholder) ==
    <<"DELETE FROM ">> \o tableName \o <<" WHERE ">> \o <<"name">> \o <<" = ">>
        \o pkPlaceholder

\* DeleteSQL is the same text in the three dialects
DeleteSQL(d, tableName, pkColumn, pkPlaceholder) ==
    <<"DELETE FROM ">> \o tableName \o <<" WHERE ">> \o pkColumn \o <<" = ">>
        \o pkPlaceholder

\* the loop of UpsertSQL without its test of the key column
RECURSIVE updateClauses_KeyIncluded(_, _, _, _, _)
updateClauses_KeyIncluded(cols, pkColumn, before, between, after) ==
    IF Len(cols) = 0 THEN <<>>
    ELSE <<before \o Head(cols) \o between \o Head(cols) \o after>>
             \o updateClauses_KeyIncluded(Tail(cols), pkColumn, before, between, after)

\* the loop of UpsertSQL: one update clause for every column but the key
RECURSIVE updateClauses(_, _, _, _, _)
updateClauses(cols, pkColumn, before, between, after) ==
    IF Len(cols) = 0 THEN <<>>
    ELSE LET col == Head(cols)
             rest == updateClauses(Tail(cols), pkColumn, before, between, after)
         IN IF col # pkColumn
            THEN <<before \o col \o between \o col \o after>> \o rest
            ELSE rest

MySQLUpsertSQL(tableName, pkColumn, cols) ==
    LET placeholders == [i \in 1..Len(cols) |-> <<"?">>] IN
    <<"INSERT INTO ">> \o tableName \o <<" (">> \o Join(cols, <<", ">>)
        \o <<") VALUES (">> \o Join(placeholders, <<", ">>)
        \o <<") ON DUPLICATE KEY UPDATE ">>
        \o Join(updateClauses(cols, pkColumn, <<>>, <<" = VALUES(">>, <<")">>), <<", ">>)

SQLiteUpsertSQL(tableName, pkColumn, cols) ==
    LET placeholders == [i \in 1..Len(cols) |-> <<"?">>] IN
    <<"INSERT INTO ">> \o tableName \o <<" (">> \o Join(cols, <<", ">>)
        \o <<") VALUES (">> \o Join(placeholders, <<", ">>)
        \o <<") ON CONFLICT(">> \o pkColumn \o <<") DO UPDATE SET ">>
        \o Join(updateClauses(cols, pkColumn, <<>>, <<" = excluded.">>, <<>>), <<", ">>)

PostgresUpsertSQL(tableName, pkColumn, cols) ==
    LET placeholders == [i \in 1..Len(cols) |-> PostgresPlaceholder(i)] IN
    <<"INSERT INTO ">> \o tableName \o <<" (">> \o Join(cols, <<", ">>)
        \o <<") VALUES (">> \o Join(placeholders, <<", ">>)
        \o <<") ON CONFLICT (">> \o pkColumn \o <<") DO UPDATE SET ">>
        \o Join(updateClauses(cols, pkColumn, <<>>, <<" = EXCLUDED.">>, <<>>), <<", ">>)

\* UpsertSQL whose MySQL update list leaves out the last column, not the key
UpsertSQL_MySQLSkipsLast(d, tableName, pkColumn, cols) ==
    CASE d = "postgres" -> PostgresUpsertSQL(tableName, pkColumn, cols)
      [] d = "mysql" -> MySQLUpsertSQL(tableName, cols[Len(cols)], cols)
      [] d = "sqlite" -> SQLiteUpsertSQL(tableName, pkColumn, cols)

UpsertSQL(d, tableName, pkColumn, cols) ==
    CASE d = "postgres" -> PostgresUpsertSQL(tableName, pkColumn, cols)
      [] d = "mysql" -> MySQLUpsertSQL(tableName, pkColumn, cols)
      [] d = "sqlite" -> SQLiteUpsertSQL(tableName, pkColumn, cols)

\* ------------------------------------------------------------ queryBuilder
NewQueryBuilder(d) ==
    [dialect |-> d, whereClauses |-> <<>>, joinClauses |-> <<>>,
     orderByClauses |-> <<>>, lockClause |-> <<>>, limit |-> 0, offset |-> 0,
     args |-> <<>>, relations |-> <<>>]

\* An option value.  All option types share one record shape: type names the
\* Go type, column/operator/clause hold its strings (clause: the raw clause,
\* the subquery, the lock clause, the join clause or the sort direction),
\* args its bound values (value, values or args), n its limit or offset and
\* relation its mapper.
noOpOption ==
    [type |-> "noOp", column |-> <<>>, operator |-> <<>>, clause |-> <<>>,
     args |-> <<>>, n |-> 0, relation |-> ""]

Ok(q) == [qb |-> q, err |-> NilErr]
Fail(q, e) == [qb |-> q, err |-> e]

noOpApply(o, q) == Ok(q)

\* simpleWhereOption.apply writing the value into the clause
simpleWhereApply_ValueInText(o, q) ==
    Ok([q EXCEPT
        !.whereClauses =
            Append(@, o.column \o <<" = ">>
                          \o (IF o.args[1].kind = "string"
                              THEN <<"'">> \o o.args[1].v \o <<"'">>
                              ELSE Itoa(o.args[1].v))),
        !.args = Append(@, o.args[1])])

simpleWhereApply(o, q) ==
    Ok([q EXCEPT
        !.whereClauses = Append(@, o.column \o <<" = ">>
                                   \o Placeholder(q.dialect, Len(q.args) + 1)),
        !.args = Append(@, o.args[1])])

operatorWhereApply(o, q) ==
    Ok([q EXCEPT
        !.whereClauses = Append(@, o.column \o <<" ">> \o o.operator \o <<" ">>
                                   \o Placeholder(q.dialect, Len(q.args) + 1)),
        !.args = Append(@, o.args[1])])

\* inApply without the check for an empty value list
inApply_NoEmptyCheck(o, q) ==
    LET placeholders == [i \in 1..Len(o.args) |->
                            Placeholder(q.dialect, Len(q.args) + 1 + (i - 1))]
    IN Ok([q EXCEPT
           !.whereClauses = Append(@, o.column \o <<" IN (">>
                                      \o Join(placeholders, <<",">>) \o <<")">>),
           !.args = @ \o o.args])

inApply(o, q) ==
    IF Len(o.args) = 0
    THEN Fail(q, Errorf("WhereIn option requires at least one value for column '%s'",
                        o.column))
    ELSE LET placeholders == [i \in 1..Len(o.args) |->
                                 Placeholder(q.dialect, Len(q.args) + 1 + (i - 1))]
         IN Ok([q EXCEPT
                !.whereClauses = Append(@, o.column \o <<" IN (">>
                                           \o Join(placeholders, <<",">>) \o <<")">>),
                !.args = @ \o o.args])

likeApply(o, q) ==
    Ok([q EXCEPT
        !.whereClauses = Append(@, o.column \o <<" LIKE ">>
                                   \o Placeholder(q.dialect, Len(q.args) + 1)),
        !.args = Append(@, o.args[1])])

lockApply(o, q) == Ok([q EXCEPT !.lockClause = o.clause])

\* sortApply replacing the ORDER BY fragments by the new one
sortApply_Replace(o, q) ==
    Ok([q EXCEPT !.orderByClauses = <<o.column \o <<" ">> \o o.clause>>])

sortApply(o, q) ==
    Ok([q EXCEPT !.orderByClauses = Append(@, o.column \o <<" ">> \o o.clause)])

limitApply(o, q) == Ok([q EXCEPT !.limit = o.n])

offsetApply(o, q) == Ok([q EXCEPT !.offset = o.n])

\* joinApply putting the new JOIN fragment before the earlier ones
joinApply_Prepend(o, q) == Ok([q EXCEPT !.joinClauses = <<o.clause>> \o @])

joinApply(o, q) == Ok([q EXCEPT !.joinClauses = Append(@, o.clause)])

subqueryApply(o, q) ==
    Ok([q EXCEPT
        !.whereClauses = Append(@, o.column \o <<" ">> \o o.operator \o <<" (">>
                                   \o o.clause \o <<")">>),
        !.args = @ \o o.args])

\* rawScan numbering the placeholders from 1 in every clause
RECURSIVE rawScan_LocalIndex(_, _, _, _, _)
rawScan_LocalIndex(d, clause, argStartIndex, finalClause, argCounterForThisClause) ==
    IF Len(clause) = 0
    THEN [final |-> finalClause, count |-> argCounterForThisClause]
    ELSE IF Head(clause) = "?"
    THEN rawScan_LocalIndex(d, Tail(clause), argStartIndex,
                            finalClause \o Placeholder(d, argCounterForThisClause + 1),
                            argCounterForThisClause + 1)
    ELSE rawScan_LocalIndex(d, Tail(clause), argStartIndex,
                            finalClause \o <<Head(clause)>>, argCounterForThisClause)

\* the loop of rawWhereOption.apply over the characters of the clause:
\* [final |-> finalClause, count |-> argCounterForThisClause]
RECURSIVE rawScan(_, _, _, _, _)
rawScan(d, clause, argStartIndex, finalClause, argCounterForThisClause) ==
    IF Len(clause) = 0
    THEN [final |-> finalClause, count |-> argCounterForThisClause]
    ELSE IF Head(clause) = "?"
    THEN LET globalArgIndex == argStartIndex + argCounterForThisClause
         IN rawScan(d, Tail(clause), argStartIndex,
                    finalClause \o Placeholder(d, globalArgIndex + 1),
                    argCounterForThisClause + 1)
    ELSE rawScan(d, Tail(clause), argStartIndex,
                 finalClause \o <<Head(clause)>>, argCounterForThisClause)

\* rawWhereApply appending before it compares the counts
rawWhereApply_AppendFirst(o, q) ==
    LET argStartIndex == Len(q.args)
        r == rawScan(q.dialect, o.clause, argStartIndex, <<>>, 0)
        q2 == [q EXCEPT !.whereClauses = Append(@, r.final), !.args = @ \o o.args]
    IN IF r.count # Len(o.args)
       THEN Fail(q2, Errorf("mismatched number of placeholders (?) and arguments in Where clause: '%s'",
                            o.clause))
       ELSE Ok(q2)

rawWhereApply(o, q) ==
    LET argStartIndex == Len(q.args)
        r == rawScan(q.dialect, o.clause, argStartIndex, <<>>, 0)
    IN IF r.count # Len(o.args)
       THEN Fail(q, Errorf("mismatched number of placeholders (?) and arguments in Where clause: '%s'",
                           o.clause))
       ELSE Ok([q EXCEPT !.whereClauses = Append(@, r.final),
                         !.args = @ \o o.args])

relationApply(o, q) == Ok([q EXCEPT !.relations = Append(@, o.relation)])

\* dynamic dispatch of Option.apply
apply(o, q) ==
    CASE o.type = "noOp" -> noOpApply(o, q)
      [] o.type = "simpleWhere" -> simpleWhereApply(o, q)
      [] o.type = "operatorWhere" -> operatorWhereApply(o, q)
      [] o.type = "in" -> inApply(o, q)
      [] o.type = "like" -> likeApply(o, q)
      [] o.type = "lock" -> lockApply(o, q)
      [] o.type = "sort" -> sortApply(o, q)
      [] o.type = "limit" -> limitApply(o, q)
      [] o.type = "offset" -> offsetApply(o, q)
      [] o.type = "join" -> joinApply(o, q)
      [] o.type = "subquery" -> subqueryApply(o, q)
      [] o.type = "rawWhere" -> rawWhereApply(o, q)
      [] o.type = "relation" -> relationApply(o, q)

\* ------------------------------------------------------ option constructors
\* Where testing the (column, operator, value) shape before the raw heuristic
Where_OperatorFirst(args) ==
    IF Len(args) = 0 THEN noOpOption
    ELSE IF args[1].kind # "string" THEN noOpOption
    ELSE LET clause == args[1].v IN
         IF Len(args) = 3 /\ args[2].kind = "string"
         THEN [noOpOption EXCEPT !.type = "operatorWhere", !.column = clause,
                                 !.operator = args[2].v, !.args = <<args[3]>>]
         ELSE IF Contains(clause, "?")
         THEN [noOpOption EXCEPT !.type = "rawWhere", !.clause = clause,
                                 !.args = Tail(args)]
         ELSE IF Len(args) = 2
         THEN [noOpOption EXCEPT !.type = "simpleWhere", !.column = clause,
                                 !.args = <<args[2]>>]
         ELSE noOpOption

Where(args) ==
    IF Len(args) = 0 THEN noOpOption
    ELSE IF args[1].kind # "string" THEN noOpOption
    ELSE LET clause == args[1].v IN
         IF Contains(clause, "?")
         THEN [noOpOption EXCEPT !.type = "rawWhere", !.clause = clause,
                                 !.args = Tail(args)]
         ELSE IF Len(args) = 3 /\ args[2].kind = "string"
         THEN [noOpOption EXCEPT !.type = "operatorWhere", !.column = clause,
                                 !.operator = args[2].v, !.args = <<args[3]>>]
         ELSE IF Len(args) = 2
         THEN [noOpOption EXCEPT !.type = "simpleWhere", !.column = clause,
                                 !.args = <<args[2]>>]
         ELSE noOpOption

WhereIn(column, values) ==
    [noOpOption EXCEPT !.type = "in", !.column = column, !.args = values]
WhereLike(column, value) ==
    [noOpOption EXCEPT !.type = "like", !.column = column, !.args = <<value>>]
Lock(clause) == [noOpOption EXCEPT !.type = "lock", !.clause = clause]
OrderBy(column, direction) ==
    [noOpOption EXCEPT !.type = "sort", !.column = column, !.clause = direction]
Limit(limit) == [noOpOption EXCEPT !.type = "limit", !.n = limit]
Offset(offset) == [noOpOption EXCEPT !.type = "offset", !.n = offset]
JoinOpt(joinClause) == [noOpOption EXCEPT !.type = "join", !.clause = joinClause]
WhereSubquery(column, operator, subquery, args) ==
    [noOpOption EXCEPT !.type = "subquery", !.column = column,
                       !.operator = operator, !.clause = subquery, !.args = args]
WithRelation(mapper) == [noOpOption EXCEPT !.type = "relation", !.relation = mapper]

\* application of a list of options in order, stopping at the first error
\* (the option loop of Repository.List / GetByID)
RECURSIVE applyOptions(_, _, _)
applyOptions(opts, q, done) ==
    IF Len(opts) = 0
    THEN [qb |-> q, err |-> NilErr, done |-> done, last |-> noOpOption, before |-> q]
    ELSE LET r == apply(Head(opts), q) IN
         IF r.err # NilErr
         THEN [qb |-> r.qb, err |-> r.err, done |-> done, last |-> Head(opts), before |-> q]
         ELSE IF Len(opts) = 1
         THEN [qb |-> r.qb, err |-> NilErr, done |-> Append(done, Head(opts)),
               last |-> Head(opts), before |-> q]
         ELSE applyOptions(Tail(opts), r.qb, Append(done, Head(opts)))

\* --------------------------------------------------------- relation mappers
\* A mapper: kind names the Go type; Fetcher, GetFK, GetPK and SetRelated
\* say whether the callback is set (non-nil).  A parent or related record
\* is [pk, fk]; the key callbacks read those fields.
MapperKinds == {"ManyToOne", "OneToMany", "HasOne"}

\* what one call of Process did: the error returned, the key lists handed to
\* the Fetcher, the SetRelated calls and the number of GetPK/GetFK calls
ProcRet(e, fetchCalls, setCalls, keyCalls) ==
    [err |-> e, fetchCalls |-> fetchCalls, setCalls |-> setCalls, keyCalls |-> keyCalls]

SetCall(i, rels) == [parent |-> i, rels |-> rels, isNil |-> FALSE]

\* the first loop of ManyToOneMapper.Process without its keyMap: every
\* non-zero foreign key, as often as it occurs
RECURSIVE manyToOneKeys_KeepDuplicates(_, _)
manyToOneKeys_KeepDuplicates(ps, keys) ==
    IF Len(ps) = 0 THEN keys
    ELSE LET fk == Head(ps).fk IN
         IF fk # 0
         THEN manyToOneKeys_KeepDuplicates(Tail(ps), Append(keys, fk))
         ELSE manyToOneKeys_KeepDuplicates(Tail(ps), keys)

\* the first loop of ManyToOneMapper.Process: distinct non-zero foreign keys
RECURSIVE manyToOneKeys(_, _)
manyToOneKeys(ps, keys) ==
    IF Len(ps) = 0 THEN keys
    ELSE LET fk == Head(ps).fk IN
         IF fk # 0 /\ ~(\E i \in 1..Len(keys) : keys[i] = fk)
         THEN manyToOneKeys(Tail(ps), Append(keys, fk))
         ELSE manyToOneKeys(Tail(ps), keys)

\* relatedMap[key] = *rel over the fetched records, by primary key
RECURSIVE relatedMapByPK(_, _)
relatedMapByPK(related, m) ==
    IF Len(related) = 0 THEN m
    ELSE LET rel == Head(related) IN
         relatedMapByPK(Tail(related),
             [k \in DOMAIN m \cup {rel.pk} |-> IF k = rel.pk THEN rel ELSE m[k]])

\* relatedMap over the fetched records, by foreign key, keeping the record
\* already stored under a key
RECURSIVE relatedMapByFK_FirstWins(_, _)
relatedMapByFK_FirstWins(related, m) ==
    IF Len(related) = 0 THEN m
    ELSE LET rel == Head(related) IN
         relatedMapByFK_FirstWins(Tail(related),
             [k \in DOMAIN m \cup {rel.fk} |-> IF k \in DOMAIN m THEN m[k] ELSE rel])

\* relatedMap[key] = *rel over the fetched records, by foreign key
RECURSIVE relatedMapByFK(_, _)
relatedMapByFK(related, m) ==
    IF Len(related) = 0 THEN m
    ELSE LET rel == Head(related) IN
         relatedMapByFK(Tail(related),
             [k \in DOMAIN m \cup {rel.fk} |-> IF k = rel.fk THEN rel ELSE m[k]])

\* groupedRelated[fk] = append(groupedRelated[fk], rel)
RECURSIVE groupByFK(_, _)
groupByFK(related, m) ==
    IF Len(related) = 0 THEN m
    ELSE LET rel == Head(related) IN
         groupByFK(Tail(related),
             [k \in DOMAIN m \cup {rel.fk} |->
                 IF k = rel.fk
                 THEN (IF k \in DOMAIN m THEN Append(m[k], rel) ELSE <<rel>>)
                 ELSE m[k]])

\* the last loop of ManyToOneMapper.Process
RECURSIVE manyToOneAttach(_, _, _, _)
manyToOneAttach(ps, i, relatedMap, calls) ==
    IF i > Len(ps) THEN calls
    ELSE IF ps[i].fk \in DOMAIN relatedMap
    THEN manyToOneAttach(ps, i + 1, relatedMap,
                         Append(calls, SetCall(i, <<relatedMap[ps[i].fk]>>)))
    ELSE manyToOneAttach(ps, i + 1, relatedMap, calls)

\* the last loop of HasOneMapper.Process
RECURSIVE hasOneAttach(_, _, _, _)
hasOneAttach(ps, i, relatedMap, calls) ==
    IF i > Len(ps) THEN calls
    ELSE IF ps[i].pk \in DOMAIN relatedMap
    THEN hasOneAttach(ps, i + 1, relatedMap,
                      Append(calls, SetCall(i, <<relatedMap[ps[i].pk]>>)))
    ELSE hasOneAttach(ps, i + 1, relatedMap, calls)

\* the last loop of OneToManyMapper.Process without its else branch
oneToManyAttach_SkipUnmatched(ps, groupedRelated) ==
    LET all == [i \in 1..Len(ps) |->
                   IF ps[i].pk \in DOMAIN groupedRelated
                   THEN SetCall(i, groupedRelated[ps[i].pk])
                   ELSE SetCall(i, <<>>)]
        Matched(c) == Len(c.rels) > 0
    IN SelectSeq(all, Matched)

\* the last loop of OneToManyMapper.Process
oneToManyAttach(ps, groupedRelated) ==
    [i \in 1..Len(ps) |->
        IF ps[i].pk \in DOMAIN groupedRelated
        THEN SetCall(i, groupedRelated[ps[i].pk])
        ELSE SetCall(i, <<>>)]

EmptyMap == [k \in {} |-> <<>>]

\* ManyToOneMapper.Process going on with the fetched slice when the Fetcher
\* returned an error
ManyToOneProcess_IgnoreFetchError(m, ps, fr) ==
    IF ~m.Fetcher \/ ~m.GetFK \/ ~m.GetPK \/ ~m.SetRelated
    THEN ProcRet(Errorf("ManyToOneMapper is not fully configured", <<>>), <<>>, <<>>, 0)
    ELSE LET keys == manyToOneKeys(ps, <<>>) IN
         IF Len(keys) = 0
         THEN ProcRet(NilErr, <<>>, <<>>, Len(ps))
         ELSE LET relatedMap == relatedMapByPK(fr.related, EmptyMap) IN
              ProcRet(NilErr, <<keys>>, manyToOneAttach(ps, 1, relatedMap, <<>>),
                      Len(ps) + Len(fr.related) + Len(ps))

\* fr: what the Fetcher returns when it is called, [related, err]
ManyToOneProcess(m, ps, fr) ==
    IF ~m.Fetcher \/ ~m.GetFK \/ ~m.GetPK \/ ~m.SetRelated
    THEN ProcRet(Errorf("ManyToOneMapper is not fully configured", <<>>), <<>>, <<>>, 0)
    ELSE LET keys == manyToOneKeys(ps, <<>>) IN
         IF Len(keys) = 0
         THEN ProcRet(NilErr, <<>>, <<>>, Len(ps))
         ELSE IF fr.err # NilErr
         THEN ProcRet(Errorf("failed to fetch related entities for ManyToOne: %w",
                             <<fr.err.text>>), <<keys>>, <<>>, Len(ps))
         ELSE LET relatedMap == relatedMapByPK(fr.related, EmptyMap) IN
              ProcRet(NilErr, <<keys>>, manyToOneAttach(ps, 1, relatedMap, <<>>),
                      Len(ps) + Len(fr.related) + Len(ps))

\* HasOneMapper.Process calling the Fetcher once for every parent
HasOneProcess_FetchPerParent(m, ps, fr) ==
    IF ~m.Fetcher \/ ~m.GetPK \/ ~m.GetFK \/ ~m.SetRelated
    THEN ProcRet(Errorf("HasOneMapper is not fully configured", <<>>), <<>>, <<>>, 0)
    ELSE LET keys == [i \in 1..Len(ps) |-> ps[i].pk] IN
         IF Len(keys) = 0
         THEN ProcRet(NilErr, <<>>, <<>>, Len(ps))
         ELSE IF fr.err # NilErr
         THEN ProcRet(Errorf("failed to fetch related entities for HasOne: %w",
                             <<fr.err.text>>), <<<<keys[1]>>>>, <<>>, Len(ps))
         ELSE LET relatedMap == relatedMapByFK(fr.related, EmptyMap) IN
              ProcRet(NilErr, [i \in 1..Len(keys) |-> <<keys[i]>>],
                      hasOneAttach(ps, 1, relatedMap, <<>>),
                      Len(ps) + Len(fr.related) + Len(ps))

\* OneToManyMapper.Process returning early on an empty batch, before the
\* configuration check
OneToManyProcess_EmptyFirst(m, ps, fr) ==
    IF Len(ps) = 0
    THEN ProcRet(NilErr, <<>>, <<>>, 0)
    ELSE IF ~m.Fetcher \/ ~m.GetPK \/ ~m.GetFK \/ ~m.SetRelated
    THEN ProcRet(Errorf("OneToManyMapper is not fully configured", <<>>), <<>>, <<>>, 0)
    ELSE LET keys == [i \in 1..Len(ps) |-> ps[i].pk] IN
         IF fr.err # NilErr
         THEN ProcRet(Errorf("failed to fetch related entities for OneToMany: %w",
                             <<fr.err.text>>), <<keys>>, <<>>, Len(ps))
         ELSE LET groupedRelated == groupByFK(fr.related, EmptyMap) IN
              ProcRet(NilErr, <<keys>>, oneToManyAttach(ps, groupedRelated),
                      Len(ps) + Len(fr.related) + Len(ps))

OneToManyProcess(m, ps, fr) ==
    IF ~m.Fetcher \/ ~m.GetPK \/ ~m.GetFK \/ ~m.SetRelated
    THEN ProcRet(Errorf("OneToManyMapper is not fully configured", <<>>), <<>>, <<>>, 0)
    ELSE LET keys == [i \in 1..Len(ps) |-> ps[i].pk] IN
         IF Len(keys) = 0
         THEN ProcRet(NilErr, <<>>, <<>>, Len(ps))
         ELSE IF fr.err # NilErr
         THEN ProcRet(Errorf("failed to fetch related entities for OneToMany: %w",
                             <<fr.err.text>>), <<keys>>, <<>>, Len(ps))
         ELSE LET groupedRelated == groupByFK(fr.related, EmptyMap) IN
              ProcRet(NilErr, <<keys>>, oneToManyAttach(ps, groupedRelated),
                      Len(ps) + Len(fr.related) + Len(ps))

\* HasOneMapper.Process keying the fetched records by their primary key
HasOneProcess_ByPK(m, ps, fr) ==
    IF ~m.Fetcher \/ ~m.GetPK \/ ~m.GetFK \/ ~m.SetRelated
    THEN ProcRet(Errorf("HasOneMapper is not fully configured", <<>>), <<>>, <<>>, 0)
    ELSE LET keys == [i \in 1..Len(ps) |-> ps[i].pk] IN
         IF Len(keys) = 0
         THEN ProcRet(NilErr, <<>>, <<>>, Len(ps))
         ELSE IF fr.err # NilErr
         THEN ProcRet(Errorf("failed to fetch related entities for HasOne: %w",
                             <<fr.err.text>>), <<keys>>, <<>>, Len(ps))
         ELSE LET relatedMap == relatedMapByPK(fr.related, EmptyMap) IN
              ProcRet(NilErr, <<keys>>, hasOneAttach(ps, 1, relatedMap, <<>>),
                      Len(ps) + Len(fr.related) + Len(ps))

HasOneProcess(m, ps, fr) ==
    IF ~m.Fetcher \/ ~m.GetPK \/ ~m.GetFK \/ ~m.SetRelated
    THEN ProcRet(Errorf("HasOneMapper is not fully configured", <<>>), <<>>, <<>>, 0)
    ELSE LET keys == [i \in 1..Len(ps) |-> ps[i].pk] IN
         IF Len(keys) = 0
         THEN ProcRet(NilErr, <<>>, <<>>, Len(ps))
         ELSE IF fr.err # NilErr
         THEN ProcRet(Errorf("failed to fetch related entities for HasOne: %w",
                             <<fr.err.text>>), <<keys>>, <<>>, Len(ps))
         ELSE LET relatedMap == relatedMapByFK(fr.related, EmptyMap) IN
              ProcRet(NilErr, <<keys>>, hasOneAttach(ps, 1, relatedMap, <<>>),
                      Len(ps) + Len(fr.related) + Len(ps))

\* -------------------------------------------------------------------- state
VARIABLES
    qb,         \* the queryBuilder under construction
    prev,       \* the queryBuilder before the most recent apply
    lastOpt,    \* the option most recently applied
    err,        \* what the most recent apply returned
    applied,    \* the options applied successfully so far, in order
    whereArgs,  \* the argument list of the most recent call of Where
    listRet,    \* what List returned, when the options were handed to List
    mapper,     \* the relation mapper Process is called on
    parents,    \* the parent batch handed to Process
    fetched,    \* what the Fetcher returned, when Process called it
    fetchLog,   \* the key lists the Fetcher was called with, in call order
    setLog,     \* the SetRelated calls, in call order
    keyCalls,   \* the number of GetPK/GetFK calls
    ret,        \* what Process returned
    sel,        \* the inputs and the result of a call of SelectSQL
    ups,        \* the inputs and the result of a call of UpsertSQL
    built,      \* the type NewRepository was called for, and what it returned
    repo,       \* the repository handle NewRepository returned
    txRepo,     \* the handle WithTx returned
    rows,       \* the committed rows of the table
    tx,         \* the transaction: its state and its uncommitted writes
    seq,        \* the largest key the table has generated or stored
    call,       \* the most recent repository call and what it returned
    listed      \* the most recent call of Repository.List and what it did

builderVars == <<qb, prev, lastOpt, err, applied, whereArgs, listRet>>
mapperVars == <<mapper, parents, fetched, fetchLog, setLog, keyCalls, ret>>
selVars == <<sel, ups>>
repoVars == <<repo, txRepo, rows, tx, seq, call>>
typeVars == <<built>>
listVars == <<listed>>
storeVars == <<selVars, repoVars, typeVars, listVars>>
vars == <<builderVars, mapperVars, storeVars>>

NoFetch == [related |-> <<>>, err |-> NilErr]
NoMapper ==
    [kind |-> "", Fetcher |-> FALSE, GetFK |-> FALSE, GetPK |-> FALSE,
     SetRelated |-> FALSE]

\* a record (one struct value of the mapped type): its key, whether the key
\* field is a nil pointer, and its one other column
Item(id, name) == [id |-> id, nilPK |-> FALSE, name |-> name]
ZeroItem == [id |-> 0, nilPK |-> FALSE, name |-> 0]

NoSelect ==
    [done |-> FALSE, dialect |-> "", joins |-> <<>>, whereClause |-> <<>>,
     orderByClause |-> <<>>, lockClause |-> <<>>, limit |-> 0, offset |-> 0,
     sql |-> <<>>]
NoHandle ==
    [dialect |-> "", tableName |-> <<>>, columns |-> <<>>, pkColumn |-> <<>>,
     exec |-> ""]
NoTx == [state |-> "none", touched |-> {}, ins |-> {}, created |-> {}]
NoCall ==
    [op |-> "", on |-> "", exec |-> "", item |-> ZeroItem, id |-> 0, opts |-> <<>>,
     ret |-> ZeroItem, err |-> NilErr, stmts |-> <<>>, before |-> {},
     recv |-> NoHandle, created |-> {}, ctx |-> "background"]

NoUpsert ==
    [done |-> FALSE, dialect |-> "", pkColumn |-> <<>>, cols |-> <<>>, sql |-> <<>>]

\* a type T: its kind, its name and, for a struct, its fields in declaration
\* order; tag is what the db tag of a field says: "none" (no db tag),
\* "ignore" (db:"-"), "column" (db:"<column>") or "pk" (db:"<column>,pk")
NoType == [kind |-> "", name |-> "", fields |-> <<>>]
NoBuilt == [done |-> FALSE, type |-> NoType, handle |-> NoHandle, err |-> NilErr]

SelectIdle == sel = NoSelect /\ ups = NoUpsert
TypeIdle == built = NoBuilt

RepoIdle ==
    /\ repo = NoHandle
    /\ txRepo = NoHandle
    /\ rows = {}
    /\ tx = NoTx
    /\ seq = 0
    /\ call = NoCall

\* List not called yet; trace holds what a call did, in order: one "scan"
\* event for every row scanned and one "process" event for every call of
\* Relation.Process, each with the records it was about
NoListed ==
    [done |-> FALSE, opts |-> <<>>, relations |-> <<>>, items |-> <<>>,
     err |-> NilErr, trace |-> <<>>]
ListIdle == listed = NoListed

StoreIdle == SelectIdle /\ RepoIdle /\ TypeIdle /\ ListIdle

MapperIdle ==
    /\ mapper = NoMapper
    /\ parents = <<>>
    /\ fetched = NoFetch
    /\ fetchLog = <<>>
    /\ setLog = <<>>
    /\ keyCalls = 0
    /\ ret = [done |-> FALSE, err |-> NilErr]

BuilderIdle(d) ==
    /\ qb = NewQueryBuilder(d)
    /\ prev = qb
    /\ lastOpt = noOpOption
    /\ err = NilErr
    /\ applied = <<>>
    /\ whereArgs = <<>>
    /\ listRet = [called |-> FALSE, opts |-> <<>>, err |-> NilErr]

BuilderInit == \E d \in Dialects : BuilderIdle(d)

\* one option applied to the queryBuilder
Step(o, wargs) ==
    /\ LET r == apply(o, qb) IN
        /\ qb' = r.qb
        /\ err' = r.err
        /\ applied' = IF r.err = NilErr THEN Append(applied, o) ELSE applied
    /\ prev' = qb
    /\ lastOpt' = o
    /\ whereArgs' = wargs
    /\ UNCHANGED <<listRet, mapperVars, storeVars>>

\* the queryBuilder takes another option: the callers of apply stop at the
\* first option that fails
Open == Len(applied) < MaxOps /\ err = NilErr /\ ~listRet.called

IntArgs(n) == {[i \in 1..Len(s) |-> IntArg(s[i])] : s \in SeqsUpTo(Values, n)}
RawClauses == {c \in SeqsFromTo(ClauseAtoms, 1, MaxClauseLen) : Contains(c, "?")}
SubqueryTexts == SeqsFromTo(ClauseAtoms, 1, MaxClauseLen)

ApplyWhereEq ==
    /\ Open
    /\ \E c \in Columns, v \in Values :
        LET a == <<StrArg(c), IntArg(v)>> IN Step(Where(a), a)

ApplyWhereOp ==
    /\ Open
    /\ \E c \in Columns, op \in Operators, v \in Values :
        LET a == <<StrArg(c), StrArg(op), IntArg(v)>> IN Step(Where(a), a)

ApplyWhereRaw ==
    /\ Open
    /\ \E c \in RawClauses, vs \in IntArgs(MaxArgs) :
        LET a == <<StrArg(c)>> \o vs IN Step(Where(a), a)

ApplyWhereIn ==
    /\ Open
    /\ \E c \in Columns, vs \in IntArgs(MaxArgs) : Step(WhereIn(c, vs), <<>>)

ApplyWhereLike ==
    /\ Open
    /\ \E c \in Columns, v \in Values : Step(WhereLike(c, IntArg(v)), <<>>)

ApplyLock ==
    /\ Open
    /\ \E c \in LockClauses : Step(Lock(c), <<>>)

ApplyOrderBy ==
    /\ Open
    /\ \E c \in Columns, d \in Directions : Step(OrderBy(c, d), <<>>)

ApplyLimit ==
    /\ Open
    /\ \E n \in 0..MaxLimit : Step(Limit(n), <<>>)

ApplyOffset ==
    /\ Open
    /\ \E n \in 0..MaxLimit : Step(Offset(n), <<>>)

ApplyJoin ==
    /\ Open
    /\ \E j \in JoinClauses : Step(JoinOpt(j), <<>>)

ApplyWhereSubquery ==
    /\ Open
    /\ \E c \in SubqueryColumns, op \in SubqueryOperators,
       s \in SubqueryTexts, vs \in IntArgs(MaxSubArgs) :
        Step(WhereSubquery(c, op, s, vs), <<>>)

ApplyWithRelation ==
    /\ Open
    /\ \E r \in RelationIds : Step(WithRelation(r), <<>>)

ListOptions ==
    {WhereIn(c, vs) : c \in Columns, vs \in IntArgs(1)}
        \cup {Limit(n) : n \in 1..MaxLimit}

\* List(ctx, opts...): a fresh queryBuilder, the options applied in order
List ==
    /\ applied = <<>>
    /\ lastOpt = noOpOption
    /\ ~listRet.called
    /\ \E opts \in SeqsFromTo(ListOptions, 1, MaxOps) :
        LET r == applyOptions(opts, qb, <<>>) IN
            /\ qb' = r.qb
            /\ err' = r.err
            /\ applied' = r.done
            /\ prev' = r.before
            /\ lastOpt' = r.last
            /\ listRet' = [called |-> TRUE, opts |-> opts, err |-> r.err]
    /\ UNCHANGED <<whereArgs, mapperVars, storeVars>>

Next ==
    \/ ApplyWhereEq
    \/ ApplyWhereOp
    \/ ApplyWhereRaw
    \/ ApplyWhereIn
    \/ ApplyWhereLike
    \/ ApplyLock
    \/ ApplyOrderBy
    \/ ApplyLimit
    \/ ApplyOffset
    \/ ApplyJoin
    \/ ApplyWhereSubquery
    \/ ApplyWithRelation
    \/ List

Init == BuilderInit /\ MapperIdle /\ StoreIdle

Spec == Init /\ [][Next]_vars

\* ---------------------------------------------- Where called on any arguments
WhereArgUniverse ==
    {StrArg(c) : c \in Columns \cup Operators \cup RawClauses}
        \cup {IntArg(v) : v \in Values}

WhereInit ==
    /\ \E d \in Dialects : BuilderIdle(d)
    /\ MapperIdle
    /\ StoreIdle

\* opt := Where(args...); opt.apply(qb)
CallWhere ==
    /\ Open
    /\ applied = <<>>
    /\ err = NilErr
    /\ \E a \in SeqsUpTo(WhereArgUniverse, MaxWhereArgs) : Step(Where(a), a)

WhereNext == CallWhere

WhereSpec == WhereInit /\ [][WhereNext]_vars

\* ------------------------------------------------- Process called on a batch
ParentRecords == [pk : 1..MaxKey, fk : 0..MaxKey]
RelatedRecords == [pk : 0..MaxKey, fk : 0..MaxKey]
FetchFailure == Errorf("fetch failed", <<>>)
FetcherResults ==
    {[related |-> r, err |-> NilErr] : r \in SeqsUpTo(RelatedRecords, MaxRelated)}
        \cup {[related |-> <<>>, err |-> FetchFailure]}

MapperInit ==
    /\ BuilderIdle("sqlite")
    /\ StoreIdle
    /\ mapper \in [kind : MapperKinds, Fetcher : BOOLEAN, GetFK : BOOLEAN,
                    GetPK : BOOLEAN, SetRelated : BOOLEAN]
    /\ parents \in SeqsUpTo(ParentRecords, MaxParents)
    /\ fetched = NoFetch
    /\ fetchLog = <<>>
    /\ setLog = <<>>
    /\ keyCalls = 0
    /\ ret = [done |-> FALSE, err |-> NilErr]

Returned(r, fr) ==
    /\ ret' = [done |-> TRUE, err |-> r.err]
    /\ fetchLog' = r.fetchCalls
    /\ setLog' = r.setCalls
    /\ keyCalls' = r.keyCalls
    /\ fetched' = IF Len(r.fetchCalls) > 0 THEN fr ELSE NoFetch
    /\ UNCHANGED <<mapper, parents, builderVars, storeVars>>

ProcessManyToOne ==
    /\ mapper.kind = "ManyToOne"
    /\ ~ret.done
    /\ \E fr \in FetcherResults : Returned(ManyToOneProcess(mapper, parents, fr), fr)

ProcessOneToMany ==
    /\ mapper.kind = "OneToMany"
    /\ ~ret.done
    /\ \E fr \in FetcherResults : Returned(OneToManyProcess(mapper, parents, fr), fr)

ProcessHasOne ==
    /\ mapper.kind = "HasOne"
    /\ ~ret.done
    /\ \E fr \in FetcherResults : Returned(HasOneProcess(mapper, parents, fr), fr)

MapperNext ==
    \/ ProcessManyToOne
    \/ ProcessOneToMany
    \/ ProcessHasOne

MapperSpec == MapperInit /\ [][MapperNext]_vars

\* ------------------------------------------- SelectSQL called on any inputs
SelectTable == <<"users">>
SelectColumns == <<<<"id">>, <<"name">>>>
SelectJoins ==
    {<<>>} \cup JoinClauses
        \cup {<<"INNER JOIN t ON t.a = u.a", " ", "LEFT JOIN v ON v.b = u.b">>}
SelectWheres == {<<>>, <<"a", " = ", "?">>, <<"a", " = ", "?", " AND ", "b", " > ", "?">>}
SelectOrders == {<<>>, <<"a", " ", "ASC">>, <<"a", " ", "ASC", ", ", "b", " ", "DESC">>}
SelectLocks == {<<>>} \cup LockClauses
SelectBounds == (0 - 1)..MaxLimit

SelectInit ==
    /\ BuilderIdle("sqlite")
    /\ MapperIdle
    /\ RepoIdle
    /\ TypeIdle
    /\ ListIdle
    /\ ups = NoUpsert
    /\ sel \in [done : {FALSE}, dialect : Dialects, joins : SelectJoins,
                whereClause : SelectWheres, orderByClause : SelectOrders,
                lockClause : SelectLocks, limit : SelectBounds,
                offset : SelectBounds, sql : {<<>>}]

\* d.SelectSQL(tableName, cols, joins, whereClause, orderByClause, lockClause,
\* limit, offset)
CallSelectSQL ==
    /\ ~sel.done
    /\ sel' = [sel EXCEPT
                 !.done = TRUE,
                 !.sql = SelectSQL(sel.dialect, SelectTable, SelectColumns, sel.joins,
                                   sel.whereClause, sel.orderByClause, sel.lockClause,
                                   sel.limit, sel.offset)]
    /\ UNCHANGED <<builderVars, mapperVars, repoVars, ups, typeVars, listVars>>

SelectNext == CallSelectSQL

SelectSpec == SelectInit /\ [][SelectNext]_vars

\* ------------------------------------------- UpsertSQL called on any inputs
MaxCols == 3
UpsertColumns == {<<"id">>, <<"name">>, <<"email">>, <<"age">>}
\* the column lists of a mapping: no column twice
ColumnLists ==
    {cs \in UNION {[1..n -> UpsertColumns] : n \in 0..MaxCols} :
        \A i, j \in 1..Len(cs) : cs[i] = cs[j] => i = j}

UpsertInit ==
    /\ BuilderIdle("sqlite")
    /\ MapperIdle
    /\ RepoIdle
    /\ TypeIdle
    /\ ListIdle
    /\ sel = NoSelect
    /\ ups \in [done : {FALSE}, dialect : Dialects, pkColumn : UpsertColumns,
                cols : ColumnLists, sql : {<<>>}]

\* d.UpsertSQL(tableName, pkColumn, cols)
CallUpsertSQL ==
    /\ ~ups.done
    /\ ups' = [ups EXCEPT
                 !.done = TRUE,
                 !.sql = UpsertSQL(ups.dialect, SelectTable, ups.pkColumn, ups.cols)]
    /\ UNCHANGED <<builderVars, mapperVars, repoVars, sel, typeVars, listVars>>

UpsertNext == CallUpsertSQL

UpsertSpec == UpsertInit /\ [][UpsertNext]_vars

\* ------------------------------------------------ reading placeholders back
IsDigit(a) == \E i \in 1..10 : DigitAtoms[i] = a
DigitValue(a) == (CHOOSE i \in 1..10 : DigitAtoms[i] = a) - 1

\* the numbers of the "$<digits>" tokens of a text, left to right
RECURSIVE NumberedTokens(_, _, _)
NumberedTokens(text, inToken, acc) ==
    IF Len(text) = 0
    THEN (IF inToken /\ acc >= 0 THEN <<acc>> ELSE <<>>)
    ELSE LET a == Head(text) IN
         IF inToken /\ IsDigit(a)
         THEN NumberedTokens(Tail(text), TRUE,
                             (IF acc < 0 THEN 0 ELSE acc) * 10 + DigitValue(a))
         ELSE (IF inToken /\ acc >= 0 THEN <<acc>> ELSE <<>>)
              \o NumberedTokens(Tail(text), a = "$", -1)

RECURSIVE CountAtom(_, _)
CountAtom(text, atom) ==
    IF Len(text) = 0 THEN 0
    ELSE (IF Head(text) = atom THEN 1 ELSE 0) + CountAtom(Tail(text), atom)

RECURSIVE Concat(_)
Concat(parts) == IF Len(parts) = 0 THEN <<>> ELSE Head(parts) \o Concat(Tail(parts))

\* the placeholder numbers of the WHERE fragments, in fragment order
WhereNumbers(q) ==
    Concat([i \in 1..Len(q.whereClauses) |-> NumberedTokens(q.whereClauses[i], FALSE, -1)])

\* the number of placeholder markers of the WHERE fragments in the dialect of q
MarkerCount(q) ==
    IF q.dialect = "postgres"
    THEN Len(WhereNumbers(q))
    ELSE CountAtom(Concat(q.whereClauses), "?")

\* ------------------------------------------------------------ the database
\* The table behind the repository: rows [id, name] with id the primary key
\* (generated when the statement gives none) and name NOT NULL.  A statement
\* is executed from its text: the executor reads the column lists, the
\* placeholders and the conflict clause the dialect wrote.
TableColumns == {"id", "name"}
Row(id, name) == [id |-> id, name |-> name]

ErrNoRows == Errorf("sql: no rows in result set", <<>>)
ErrConstraint == Errorf("UNIQUE constraint failed", <<>>)
ErrStatement == Errorf("syntax error", <<>>)

\* where atom first occurs in text from position i on, 0 when it does not
RECURSIVE IndexFrom(_, _, _)
IndexFrom(text, atom, i) ==
    IF i > Len(text) THEN 0
    ELSE IF text[i] = atom THEN i
    ELSE IndexFrom(text, atom, i + 1)
IndexOf(text, atom) == IndexFrom(text, atom, 1)
After(text, atom) ==
    LET i == IndexOf(text, atom) IN
    IF i = 0 THEN <<>> ELSE SubSeq(text, i + 1, Len(text))
Before(text, atom) ==
    LET i == IndexOf(text, atom) IN
    IF i = 0 THEN text ELSE SubSeq(text, 1, i - 1)
ColumnsIn(text) == LET IsCol(a) == a \in TableColumns IN SelectSeq(text, IsCol)
SetOf(q) == {q[i] : i \in 1..Len(q)}
MaxOf(S) == CHOOSE m \in S : \A x \in S : x <= m

\* the arguments the placeholders of a text are bound to, left to right
ArgRefs(d, text) ==
    IF d = "postgres" THEN NumberedTokens(text, FALSE, -1)
    ELSE [i \in 1..CountAtom(text, "?") |-> i]

Bound(refs, args) == \A i \in 1..Len(refs) : refs[i] \in 1..Len(args)

\* a statement read from its text: its kind, the columns it names (cols: the
\* inserted, set or selected columns; where: the filter column), the
\* arguments its placeholders are bound to, its conflict clause, and whether
\* the text is no statement the database accepts
Prepared(kind, cols, where, refs, upsert, updCols, bad) ==
    [kind |-> kind, cols |-> cols, where |-> where, refs |-> refs,
     upsert |-> upsert, updCols |-> updCols, bad |-> bad]
NoStatement == Prepared("", <<>>, <<>>, <<>>, FALSE, {}, TRUE)

\* INSERT INTO t (cols) VALUES (placeholders) [conflict clause]
PrepareInsert(d, text) ==
    LET cols == ColumnsIn(Before(After(text, " ("), ") VALUES ("))
        rest == After(text, ") VALUES (")
        refs == ArgRefs(d, rest)
        onDuplicate == Contains(rest, ") ON DUPLICATE KEY UPDATE ")
        onConflict == Contains(rest, ") DO UPDATE SET ")
        target == IF Contains(rest, ") ON CONFLICT(")
                  THEN Before(After(rest, ") ON CONFLICT("), ") DO UPDATE SET ")
                  ELSE Before(After(rest, ") ON CONFLICT ("), ") DO UPDATE SET ")
        updCols == IF onDuplicate
                   THEN SetOf(ColumnsIn(After(rest, ") ON DUPLICATE KEY UPDATE ")))
                   ELSE SetOf(ColumnsIn(After(rest, ") DO UPDATE SET ")))
        bad == \/ Len(cols) = 0
               \/ Len(refs) # Len(cols)
               \/ Cardinality(SetOf(cols)) # Len(cols)
               \/ "name" \notin SetOf(cols)
               \/ (onDuplicate \/ onConflict) /\ updCols = {}
               \/ onConflict /\ target # <<"id">>
    IN Prepared("insert", cols, <<>>, refs, onDuplicate \/ onConflict, updCols, bad)

\* UPDATE t SET col = placeholder, ... WHERE col = placeholder
PrepareUpdate(d, text) ==
    LET cols == ColumnsIn(Before(After(text, " SET "), " WHERE "))
        where == ColumnsIn(After(text, " WHERE "))
        refs == ArgRefs(d, After(text, " SET "))
        bad == Len(cols) = 0 \/ Len(where) # 1 \/ Len(refs) # Len(cols) + 1
    IN Prepared("update", cols, where, refs, FALSE, {}, bad)

\* DELETE FROM t WHERE col = placeholder
PrepareDelete(d, text) ==
    LET where == ColumnsIn(After(text, " WHERE "))
        refs == ArgRefs(d, After(text, " WHERE "))
        bad == Len(where) # 1 \/ Len(refs) # 1
    IN Prepared("delete", <<>>, where, refs, FALSE, {}, bad)

\* SELECT cols FROM t [WHERE col = placeholder] [lock clause]
PrepareSelect(d, text) ==
    LET cols == ColumnsIn(Before(After(text, "SELECT "), " FROM "))
        where == ColumnsIn(After(text, " WHERE "))
        refs == ArgRefs(d, After(text, " WHERE "))
        bad == \/ Len(cols) = 0
               \/ Contains(text, " WHERE ") /\ (Len(where) # 1 \/ Len(refs) # 1)
               \/ ~Contains(text, " WHERE ") /\ Len(refs) # 0
    IN Prepared("select", cols, where, refs, FALSE, {}, bad)

Prepare(d, text) ==
    IF Len(text) = 0 THEN NoStatement
    ELSE CASE text[1] = "INSERT INTO " -> PrepareInsert(d, text)
           [] text[1] = "UPDATE " -> PrepareUpdate(d, text)
           [] text[1] = "DELETE FROM " -> PrepareDelete(d, text)
           [] text[1] = "SELECT " -> PrepareSelect(d, text)
           [] OTHER -> NoStatement

\* ex: the executor of a handle with the context of the call,
\* [table, seq, ctx]: the rows it sees, the key generator and the context
ExecResult(table, sq, affected, lastId, result, e) ==
    [table |-> table, seq |-> sq, affected |-> affected, lastId |-> lastId,
     result |-> result, err |-> e]
ExecFailed(ex, e) == ExecResult(ex.table, ex.seq, 0, 0, {}, e)

ExecInsert(p, args, ex) ==
    LET val(c) == args[p.refs[IndexOf(p.cols, c)]].v
        id == IF "id" \in SetOf(p.cols) THEN val("id")
              ELSE MaxOf({r.id : r \in ex.table} \cup {ex.seq}) + 1
        new == Row(id, val("name"))
        old == {r \in ex.table : r.id = id}
        merged(r) == Row(IF "id" \in p.updCols THEN new.id ELSE r.id,
                         IF "name" \in p.updCols THEN new.name ELSE r.name)
    IN IF old = {}
       THEN ExecResult(ex.table \cup {new}, MaxOf({ex.seq, id}), 1, id, {}, NilErr)
       ELSE IF p.upsert
       THEN ExecResult((ex.table \ old) \cup {merged(r) : r \in old},
                       ex.seq, 1, id, {}, NilErr)
       ELSE ExecFailed(ex, ErrConstraint)

ExecUpdate(p, args, ex) ==
    LET val(c) == args[p.refs[IndexOf(p.cols, c)]].v
        hits == {r \in ex.table : r[p.where[1]] = args[p.refs[Len(p.refs)]].v}
        set(r) == Row(IF "id" \in SetOf(p.cols) THEN val("id") ELSE r.id,
                      IF "name" \in SetOf(p.cols) THEN val("name") ELSE r.name)
        table == (ex.table \ hits) \cup {set(r) : r \in hits}
    IN IF Cardinality({r.id : r \in table}) # Cardinality(table)
       THEN ExecFailed(ex, ErrConstraint)
       ELSE ExecResult(table, ex.seq, Cardinality(hits), 0, {}, NilErr)

ExecDelete(p, args, ex) ==
    LET hits == {r \in ex.table : r[p.where[1]] = args[p.refs[1]].v}
    IN ExecResult(ex.table \ hits, ex.seq, Cardinality(hits), 0, {}, NilErr)

ExecSelect(p, args, ex) ==
    LET hits == IF Len(p.where) = 0 THEN ex.table
                ELSE {r \in ex.table : r[p.where[1]] = args[p.refs[1]].v}
        out(r) == Row(IF "id" \in SetOf(p.cols) THEN r.id ELSE 0,
                      IF "name" \in SetOf(p.cols) THEN r.name ELSE 0)
    IN ExecResult(ex.table, ex.seq, 0, 0, {out(r) : r \in hits}, NilErr)

\* a prepared statement executed with its arguments
ExecPrepared(p, args, ex) ==
    IF p.bad \/ ~Bound(p.refs, args) \/ Len(p.refs) # Len(args)
    THEN ExecFailed(ex, ErrStatement)
    ELSE CASE p.kind = "insert" -> ExecInsert(p, args, ex)
           [] p.kind = "update" -> ExecUpdate(p, args, ex)
           [] p.kind = "delete" -> ExecDelete(p, args, ex)
           [] p.kind = "select" -> ExecSelect(p, args, ex)

\* the contexts a call is made with, and what ctx.Err() returns for each
Contexts == {"background", "canceled", "expired"}
ErrCanceled == Errorf("context canceled", <<>>)
ErrDeadlineExceeded == Errorf("context deadline exceeded", <<>>)
CtxErr(c) ==
    CASE c = "canceled" -> ErrCanceled
      [] c = "expired" -> ErrDeadlineExceeded
      [] OTHER -> NilErr

\* the statement executed whatever the context of the call
Exec_IgnoresContext(d, text, args, ex) == ExecPrepared(Prepare(d, text), args, ex)

\* the statement text executed under the context of the call, ex.ctx: a
\* context that is done fails the call before the statement runs; otherwise
\* the statement is prepared, then run with its arguments
Exec(d, text, args, ex) ==
    IF CtxErr(ex.ctx) # NilErr THEN ExecFailed(ex, CtxErr(ex.ctx))
    ELSE ExecPrepared(Prepare(d, text), args, ex)

\* ------------------------------------------------------------- repository
\* The repository core (NewRepository, Create, CreateOrUpdate, GetByID,
\* Update, Delete, WithTx) over the statement builders of the dialects.
MaxId == 2
Names == Values
MissingKeyError == Errorf("primary key value not found in item to update", <<>>)

Field(column, tag) == [column |-> column, tag |-> tag]
StructType(name, fields) == [kind |-> "struct", name |-> name, fields |-> fields]
\* struct { ID int `db:"id,pk"`; Name ... `db:"name"` }
ItemType == StructType("User", <<Field(<<"id">>, "pk"), Field(<<"name">>, "column")>>)

\* the configuration errors of NewRepository, each naming the type
ErrNotStruct(T) == Errorf("generic type T must be a struct, but got %s", <<T.name>>)
ErrNoTags(T) == Errorf("no 'db' tags found in struct %s", <<T.name>>)
ErrMultiplePK(T) == Errorf("multiple primary key fields defined in %s", <<T.name>>)
ErrNoPK(T) ==
    Errorf("no primary key field defined with ',pk' tag in struct %s", <<T.name>>)

\* the fields of T that are mapped to a column, and those marked as the key
MappedFields(T) == LET Mapped(f) == f.tag \in {"column", "pk"} IN SelectSeq(T.fields, Mapped)
KeyFields(T) == LET Key(f) == f.tag = "pk" IN SelectSeq(T.fields, Key)

\* NewRepository[T] taking the last of several key fields as the key
NewRepositoryOf_LastKey(T, tableName, d) ==
    LET mapped == MappedFields(T)
        keys == KeyFields(T)
    IN IF T.kind # "struct" THEN [handle |-> NoHandle, err |-> ErrNotStruct(T)]
       ELSE IF Len(mapped) = 0 THEN [handle |-> NoHandle, err |-> ErrNoTags(T)]
       ELSE IF Len(keys) = 0 THEN [handle |-> NoHandle, err |-> ErrNoPK(T)]
       ELSE [handle |-> [dialect |-> d, tableName |-> tableName,
                         columns |-> [i \in 1..Len(mapped) |-> mapped[i].column],
                         pkColumn |-> keys[Len(keys)].column, exec |-> "db"],
             err |-> NilErr]

\* NewRepository[T](db, tableName, dialect): the mapping of T, or a
\* configuration error and no handle
NewRepositoryOf(T, tableName, d) ==
    LET mapped == MappedFields(T)
        keys == KeyFields(T)
    IN IF T.kind # "struct" THEN [handle |-> NoHandle, err |-> ErrNotStruct(T)]
       ELSE IF Len(mapped) = 0 THEN [handle |-> NoHandle, err |-> ErrNoTags(T)]
       ELSE IF Len(keys) > 1 THEN [handle |-> NoHandle, err |-> ErrMultiplePK(T)]
       ELSE IF Len(keys) = 0 THEN [handle |-> NoHandle, err |-> ErrNoPK(T)]
       ELSE [handle |-> [dialect |-> d, tableName |-> tableName,
                         columns |-> [i \in 1..Len(mapped) |-> mapped[i].column],
                         pkColumn |-> keys[1].column, exec |-> "db"],
             err |-> NilErr]

\* NewRepository[T](db, tableName, dialect) for the record type of the items
NewRepository(tableName, d) == NewRepositoryOf(ItemType, tableName, d).handle

\* the columns of the mapping but the key, in declaration order
NonKeyColumns(h) == LET NotKey(c) == c # h.pkColumn IN SelectSeq(h.columns, NotKey)
\* the field values of item for the columns cols, as statement arguments
FieldArgs(cols, item) == [i \in 1..Len(cols) |-> IntArg(item[cols[i][1]])]
Placeholders(d, n) == [i \in 1..n |-> Placeholder(d, i)]
\* row scanning: every selected column into the field of its name
ScanRow(r) == Item(r.id, r.name)

\* the statement texts of the calls
CreateStatement(h, cols) ==
    InsertSQL(h.dialect, h.tableName, cols, Placeholders(h.dialect, Len(cols)))
CreateOrUpdateStatement(h) == UpsertSQL(h.dialect, h.tableName, h.pkColumn, h.columns)
GetStatement(h, q) ==
    SelectSQL(h.dialect, h.tableName, h.columns,
              Join(q.joinClauses, <<" ">>), Join(q.whereClauses, <<" AND ">>),
              Join(q.orderByClauses, <<", ">>), q.lockClause, q.limit, q.offset)
UpdateStatement(h) ==
    LET cols == NonKeyColumns(h)
        n == Len(cols)
        setClauses == Join([i \in 1..n |-> cols[i] \o <<" = ">> \o Placeholder(h.dialect, i)],
                           <<", ">>)
    IN UpdateSQL(h.dialect, h.tableName, setClauses, h.pkColumn,
                 Placeholder(h.dialect, n + 1))
DeleteStatement(h) ==
    DeleteSQL(h.dialect, h.tableName, h.pkColumn, Placeholder(h.dialect, 1))

\* what a repository call did: the item and the error returned, the
\* statements executed, and the executor's table and key generator after it
CallResult(item, e, stmts, x) ==
    [ret |-> item, err |-> e, stmts |-> stmts, table |-> x.table, seq |-> x.seq]

\* Create returning the item as it was given, the generated key not read back
RepoCreate_KeyNotReadBack(h, item, ex) ==
    LET cols == IF item.id = 0 THEN NonKeyColumns(h) ELSE h.columns
        stmt == CreateStatement(h, cols)
        x == Exec(h.dialect, stmt, FieldArgs(cols, item), ex)
    IN IF x.err # NilErr THEN CallResult(ZeroItem, x.err, <<stmt>>, x)
       ELSE CallResult(item, NilErr, <<stmt>>, x)

\* Create(ctx, item): a zero key is left to the database and read back, a
\* key that is set is inserted as it is
RepoCreate(h, item, ex) ==
    LET generated == item.id = 0
        cols == IF generated THEN NonKeyColumns(h) ELSE h.columns
        stmt == CreateStatement(h, cols)
        x == Exec(h.dialect, stmt, FieldArgs(cols, item), ex)
    IN IF x.err # NilErr THEN CallResult(ZeroItem, x.err, <<stmt>>, x)
       ELSE IF generated THEN CallResult([item EXCEPT !.id = x.lastId], NilErr, <<stmt>>, x)
       ELSE CallResult(item, NilErr, <<stmt>>, x)

\* CreateOrUpdate(ctx, item): the dialect's upsert statement over all columns
RepoCreateOrUpdate(h, item, ex) ==
    LET stmt == CreateOrUpdateStatement(h)
        x == Exec(h.dialect, stmt, FieldArgs(h.columns, item), ex)
    IN IF x.err # NilErr THEN CallResult(ZeroItem, x.err, <<stmt>>, x)
       ELSE CallResult(item, NilErr, <<stmt>>, x)

\* GetByID(ctx, id, opts...): SELECT with the key filter first, then the options
RepoGetByID(h, id, opts, ex) ==
    LET q0 == [NewQueryBuilder(h.dialect) EXCEPT
                 !.whereClauses = <<h.pkColumn \o <<" = ">> \o Placeholder(h.dialect, 1)>>,
                 !.args = <<IntArg(id)>>]
        o == applyOptions(opts, q0, <<>>)
        q == o.qb
        stmt == GetStatement(h, q)
        x == Exec(h.dialect, stmt, q.args, ex)
    IN IF o.err # NilErr THEN CallResult(ZeroItem, o.err, <<>>, ex)
       ELSE IF x.err # NilErr THEN CallResult(ZeroItem, x.err, <<stmt>>, x)
       ELSE IF x.result = {} THEN CallResult(ZeroItem, ErrNoRows, <<stmt>>, x)
       ELSE CallResult(ScanRow(CHOOSE r \in x.result : TRUE), NilErr, <<stmt>>, x)

\* Update that does not look at the key before it builds the statement
RepoUpdate_NoKeyCheck(h, item, ex) ==
    LET stmt == UpdateStatement(h)
        x == Exec(h.dialect, stmt, FieldArgs(NonKeyColumns(h), item) \o <<IntArg(item.id)>>, ex)
    IN IF x.err # NilErr THEN CallResult(ZeroItem, x.err, <<stmt>>, x)
       ELSE IF x.affected = 0 THEN CallResult(ZeroItem, ErrNoRows, <<stmt>>, x)
       ELSE CallResult(item, NilErr, <<stmt>>, x)

\* Update(ctx, item): every column but the key set from item, filtered by key
RepoUpdate(h, item, ex) ==
    LET cols == NonKeyColumns(h)
        stmt == UpdateStatement(h)
        x == Exec(h.dialect, stmt, FieldArgs(cols, item) \o <<IntArg(item.id)>>, ex)
    IN IF item.nilPK THEN CallResult(ZeroItem, MissingKeyError, <<>>, ex)
       ELSE IF x.err # NilErr THEN CallResult(ZeroItem, x.err, <<stmt>>, x)
       ELSE IF x.affected = 0 THEN CallResult(ZeroItem, ErrNoRows, <<stmt>>, x)
       ELSE CallResult(item, NilErr, <<stmt>>, x)

\* Delete(ctx, id)
RepoDelete(h, id, ex) ==
    LET stmt == DeleteStatement(h)
        x == Exec(h.dialect, stmt, <<IntArg(id)>>, ex)
    IN IF x.err # NilErr THEN CallResult(ZeroItem, x.err, <<stmt>>, x)
       ELSE IF x.affected = 0 THEN CallResult(ZeroItem, ErrNoRows, <<stmt>>, x)
       ELSE CallResult(ZeroItem, NilErr, <<stmt>>, x)

\* WithTx(tx) storing the transaction in the receiver
WithTx_SetReceiver(h, t) ==
    [recv |-> [h EXCEPT !.exec = t], new |-> [h EXCEPT !.exec = t]]

\* WithTx(tx): recv is the receiver after the call, new the handle returned
WithTx(h, t) == [recv |-> h, new |-> [h EXCEPT !.exec = t]]

\* --------------------------------------------- repository calls on a table
RepoTable == <<"users">>
Ids == 1..MaxId
CreateItems == {Item(k, n) : k \in 0..MaxId, n \in Names}
UpsertItems == {Item(k, n) : k \in Ids, n \in Names}
\* items to update: of a key that is set, or of a nil pointer key
UpdateItems ==
    {Item(k, n) : k \in Ids, n \in Names} \cup {[ZeroItem EXCEPT !.nilPK = TRUE]}
\* the options of GetByID: a row lock is asked for inside a transaction only
GetOptions(h) ==
    {<<>>} \cup (IF h.exec = "tx" THEN {<<Lock(c)>> : c \in LockClauses} ELSE {})

\* the rows the transaction sees: the committed rows but those it wrote,
\* and what it wrote
TxView == {r \in rows : r.id \notin tx.touched} \cup tx.ins

\* the executor a handle is bound to: the connection or the transaction
Executor(h) ==
    IF h.exec = "tx"
    THEN [table |-> TxView, seq |-> seq, ctx |-> "background"]
    ELSE [table |-> rows, seq |-> seq, ctx |-> "background"]

\* the executor of a handle for a call made with the context c
ExecutorWith(h, c) == [Executor(h) EXCEPT !.ctx = c]

\* the handles in use, by the variable that holds them: the transaction's
\* handle is used while the transaction is open
Handles == {"repo"} \cup (IF txRepo = NoHandle THEN {} ELSE {"txRepo"})
HandleOf(n) == IF n = "txRepo" THEN txRepo ELSE repo

\* the keys whose row differs between two tables
ChangedIds(a, b) == {r.id : r \in (a \ b) \cup (b \ a)}

RepoInit ==
    /\ BuilderIdle("sqlite")
    /\ MapperIdle
    /\ SelectIdle
    /\ TypeIdle
    /\ ListIdle
    /\ \E d \in Dialects : repo = NewRepository(RepoTable, d)
    /\ txRepo = NoHandle
    /\ rows = {}
    /\ tx = NoTx
    /\ seq = 0
    /\ call = NoCall

\* a call on the handle held by n returned r: its writes go to the transaction or to the
\* committed rows; a write outside the transaction to a row the open
\* transaction wrote waits for its end
Run(op, n, item, id, opts, r) ==
    LET h == HandleOf(n)
        before == Executor(h).table
        changed == ChangedIds(before, r.table)
    IN /\ \A x \in r.table : x.id \in Ids
       /\ r.seq <= MaxId
       /\ IF h.exec = "tx"
          THEN /\ rows' = rows
               /\ tx' = [tx EXCEPT
                           !.touched = @ \cup changed,
                           !.ins = {x \in r.table : x.id \in tx.touched \cup changed},
                           !.created =
                               {k \in @ \cup (IF op = "Create" /\ r.err = NilErr
                                              THEN {r.ret.id} ELSE {}) :
                                   \E x \in r.table : x.id = k}]
          ELSE /\ tx.state = "open" => changed \cap tx.touched = {}
               /\ rows' = r.table
               /\ tx' = tx
       /\ seq' = r.seq
       /\ call' = [op |-> op, on |-> n, exec |-> h.exec, item |-> item, id |-> id, opts |-> opts,
                   ret |-> r.ret, err |-> r.err, stmts |-> r.stmts, before |-> before,
                   recv |-> NoHandle, created |-> {}, ctx |-> "background"]
       /\ UNCHANGED <<repo, txRepo, builderVars, mapperVars, selVars, typeVars, listVars>>

DoCreate ==
    \E n \in Handles, item \in CreateItems :
        \E r \in {RepoCreate(HandleOf(n), item, Executor(HandleOf(n)))} :
            Run("Create", n, item, 0, <<>>, r)

DoCreateOrUpdate ==
    \E n \in Handles, item \in UpsertItems :
        \E r \in {RepoCreateOrUpdate(HandleOf(n), item, Executor(HandleOf(n)))} :
            Run("CreateOrUpdate", n, item, 0, <<>>, r)

DoGetByID ==
    \E n \in Handles, id \in Ids : \E opts \in GetOptions(HandleOf(n)) :
        \E r \in {RepoGetByID(HandleOf(n), id, opts, Executor(HandleOf(n)))} :
            Run("GetByID", n, ZeroItem, id, opts, r)

DoUpdate ==
    \E n \in Handles, item \in UpdateItems :
        \E r \in {RepoUpdate(HandleOf(n), item, Executor(HandleOf(n)))} :
            Run("Update", n, item, 0, <<>>, r)

DoDelete ==
    \E n \in Handles, id \in Ids :
        \E r \in {RepoDelete(HandleOf(n), id, Executor(HandleOf(n)))} :
            Run("Delete", n, ZeroItem, id, <<>>, r)

\* the rows created through the transaction's handle, as the transaction sees
\* them
CreatedRows == {r \in TxView : r.id \in tx.created}

\* tx, err := db.BeginTx(ctx, nil)
BeginTx ==
    /\ tx.state = "none"
    /\ tx' = [NoTx EXCEPT !.state = "open"]
    /\ call' = [NoCall EXCEPT !.op = "BeginTx", !.before = rows]
    /\ UNCHANGED <<repo, txRepo, rows, seq, builderVars, mapperVars, selVars, typeVars, listVars>>

\* txRepo := repo.WithTx(tx)
DoWithTx ==
    /\ tx.state = "open"
    /\ txRepo = NoHandle
    /\ LET w == WithTx(repo, "tx") IN
        /\ repo' = w.recv
        /\ txRepo' = w.new
    /\ call' = [NoCall EXCEPT !.op = "WithTx", !.before = rows, !.recv = repo]
    /\ UNCHANGED <<rows, tx, seq, builderVars, mapperVars, selVars, typeVars, listVars>>

\* tx.Commit(): the transaction's writes become the committed rows; its
\* handle is used no more
CommitTx ==
    /\ tx.state = "open"
    /\ rows' = TxView
    /\ tx' = NoTx
    /\ txRepo' = NoHandle
    /\ call' = [NoCall EXCEPT !.op = "Commit", !.before = rows, !.created = CreatedRows]
    /\ UNCHANGED <<repo, seq, builderVars, mapperVars, selVars, typeVars, listVars>>

\* tx.Rollback() that keeps the transaction's writes
RollbackTx_KeepsWrites ==
    /\ tx.state = "open"
    /\ rows' = TxView
    /\ tx' = NoTx
    /\ txRepo' = NoHandle
    /\ call' = [NoCall EXCEPT !.op = "Rollback", !.before = rows, !.created = CreatedRows]
    /\ UNCHANGED <<repo, seq, builderVars, mapperVars, selVars, typeVars, listVars>>

\* tx.Rollback(): the transaction's writes are dropped
RollbackTx ==
    /\ tx.state = "open"
    /\ rows' = rows
    /\ tx' = NoTx
    /\ txRepo' = NoHandle
    /\ call' = [NoCall EXCEPT !.op = "Rollback", !.before = rows, !.created = CreatedRows]
    /\ UNCHANGED <<repo, seq, builderVars, mapperVars, selVars, typeVars, listVars>>

RepoNext ==
    \/ DoCreate
    \/ DoCreateOrUpdate
    \/ DoGetByID
    \/ DoUpdate
    \/ DoDelete
    \/ BeginTx
    \/ DoWithTx
    \/ CommitTx
    \/ RollbackTx

RepoSpec == RepoInit /\ [][RepoNext]_vars

\* ------------------------------------ repository calls made with a context
\* a call on repo made with the context c returned r
RunWith(op, c, item, id, opts, r) ==
    /\ \A x \in r.table : x.id \in Ids
    /\ r.seq <= MaxId
    /\ rows' = r.table
    /\ seq' = r.seq
    /\ call' = [op |-> op, on |-> "repo", exec |-> repo.exec, item |-> item, id |-> id,
                opts |-> opts, ret |-> r.ret, err |-> r.err, stmts |-> r.stmts,
                before |-> rows, recv |-> NoHandle, created |-> {}, ctx |-> c]
    /\ UNCHANGED <<repo, txRepo, tx, builderVars, mapperVars, selVars, typeVars, listVars>>

CreateWith ==
    \E c \in Contexts, item \in CreateItems :
        \E r \in {RepoCreate(repo, item, ExecutorWith(repo, c))} :
            RunWith("Create", c, item, 0, <<>>, r)

CreateOrUpdateWith ==
    \E c \in Contexts, item \in UpsertItems :
        \E r \in {RepoCreateOrUpdate(repo, item, ExecutorWith(repo, c))} :
            RunWith("CreateOrUpdate", c, item, 0, <<>>, r)

GetByIDWith ==
    \E c \in Contexts, id \in Ids :
        \E r \in {RepoGetByID(repo, id, <<>>, ExecutorWith(repo, c))} :
            RunWith("GetByID", c, ZeroItem, id, <<>>, r)

UpdateWith ==
    \E c \in Contexts, item \in UpdateItems :
        \E r \in {RepoUpdate(repo, item, ExecutorWith(repo, c))} :
            RunWith("Update", c, item, 0, <<>>, r)

DeleteWith ==
    \E c \in Contexts, id \in Ids :
        \E r \in {RepoDelete(repo, id, ExecutorWith(repo, c))} :
            RunWith("Delete", c, ZeroItem, id, <<>>, r)

ContextNext ==
    \/ CreateWith
    \/ CreateOrUpdateWith
    \/ GetByIDWith
    \/ UpdateWith
    \/ DeleteWith

ContextSpec == RepoInit /\ [][ContextNext]_vars

\* ---------------------------------------------------- List with relations
ErrProcess == Errorf("failed to fetch related entities", <<>>)
ListEvent(event, relation, batch) ==
    [event |-> event, relation |-> relation, batch |-> batch]
ListResult(relations, items, e, trace) ==
    [relations |-> relations, items |-> items, err |-> e, trace |-> trace]

\* the rows of a result set in the order the table returns them: by key
RECURSIVE ResultOrder(_)
ResultOrder(S) ==
    IF S = {} THEN <<>>
    ELSE LET first == CHOOSE r \in S : \A x \in S : r.id <= x.id
         IN <<first>> \o ResultOrder(S \ {first})

\* the loop over qb.relations: relation.Process(ctx, batch) for each in
\* order, stopping at the first that fails; failing: the relations whose
\* Process returns an error
RECURSIVE processRelations(_, _, _, _)
processRelations(relations, batch, failing, trace) ==
    IF Len(relations) = 0 THEN [err |-> NilErr, trace |-> trace]
    ELSE LET t == Append(trace, ListEvent("process", Head(relations), batch)) IN
         IF Head(relations) \in failing THEN [err |-> ErrProcess, trace |-> t]
         ELSE processRelations(Tail(relations), batch, failing, t)

\* the trace of a List that processes the relations for every row as it is
\* scanned
RECURSIVE scanAndProcessEach(_, _, _, _)
scanAndProcessEach(relations, items, failing, trace) ==
    IF Len(items) = 0 THEN [err |-> NilErr, trace |-> trace]
    ELSE LET one == <<Head(items)>>
             p == processRelations(relations, one, failing,
                                   Append(trace, ListEvent("scan", "", one)))
         IN IF p.err # NilErr THEN p
            ELSE scanAndProcessEach(relations, Tail(items), failing, p.trace)

\* List processing the relations row by row
RepoList_PerRow(h, opts, ex, failing) ==
    LET o == applyOptions(opts, NewQueryBuilder(h.dialect), <<>>)
        q == o.qb
        stmt == GetStatement(h, q)
        x == Exec(h.dialect, stmt, q.args, ex)
        sorted == ResultOrder(x.result)
        items == [i \in 1..Len(sorted) |-> ScanRow(sorted[i])]
        p == scanAndProcessEach(q.relations, items, failing, <<>>)
    IN IF o.err # NilErr THEN ListResult(q.relations, <<>>, o.err, <<>>)
       ELSE IF x.err # NilErr THEN ListResult(q.relations, <<>>, x.err, <<>>)
       ELSE IF p.err # NilErr THEN ListResult(q.relations, <<>>, p.err, p.trace)
       ELSE ListResult(q.relations, items, NilErr, p.trace)

\* List(ctx, opts...): the options applied in order to a fresh queryBuilder,
\* the SELECT executed, every row scanned in result order, then every
\* relation of the queryBuilder processed against the scanned batch
RepoList(h, opts, ex, failing) ==
    LET o == applyOptions(opts, NewQueryBuilder(h.dialect), <<>>)
        q == o.qb
        stmt == GetStatement(h, q)
        x == Exec(h.dialect, stmt, q.args, ex)
        sorted == ResultOrder(x.result)
        items == [i \in 1..Len(sorted) |-> ScanRow(sorted[i])]
        scans == [i \in 1..Len(items) |-> ListEvent("scan", "", <<items[i]>>)]
        p == processRelations(q.relations, items, failing, scans)
    IN IF o.err # NilErr THEN ListResult(q.relations, <<>>, o.err, <<>>)
       ELSE IF x.err # NilErr THEN ListResult(q.relations, <<>>, x.err, <<>>)
       ELSE IF p.err # NilErr THEN ListResult(q.relations, <<>>, p.err, p.trace)
       ELSE ListResult(q.relations, items, NilErr, p.trace)

\* the options of List: relations to load, a filter on the key, and a
\* membership filter without values, which fails
RelationListOptions ==
    {WithRelation(r) : r \in RelationIds}
        \cup {Where(<<StrArg(<<"id">>), IntArg(k)>>) : k \in {1}}
        \cup {WhereIn(<<"id">>, <<>>)}

DoList ==
    \E opts \in SeqsUpTo(RelationListOptions, MaxOps), failing \in SUBSET RelationIds :
        \E r \in {RepoList(repo, opts, Executor(repo), failing)} :
            /\ listed' = [done |-> TRUE, opts |-> opts, relations |-> r.relations,
                          items |-> r.items, err |-> r.err, trace |-> r.trace]
            /\ UNCHANGED <<repoVars, builderVars, mapperVars, selVars, typeVars>>

ListNext ==
    \/ DoCreate
    \/ DoList

ListSpec == RepoInit /\ [][ListNext]_vars

\* ---------------------------------------- NewRepository called for any type
MaxFields == 3
Tags == {"none", "ignore", "column", "pk"}
\* the column the db tag of the i-th field names
ColumnAt(i) == <<"c">> \o Itoa(i)
StructTypes ==
    {StructType("User", [i \in 1..Len(tags) |-> Field(ColumnAt(i), tags[i])]) :
        tags \in UNION {[1..m -> Tags] : m \in 0..MaxFields}}
Types == StructTypes \cup {[kind |-> "int", name |-> "int", fields |-> <<>>]}

TypeInit ==
    /\ BuilderIdle("sqlite")
    /\ MapperIdle
    /\ SelectIdle
    /\ RepoIdle
    /\ ListIdle
    /\ \E T \in Types : built = [NoBuilt EXCEPT !.type = T]

\* crud.NewRepository[T](db, "users", dialect)
CallNewRepository ==
    /\ ~built.done
    /\ \E d \in Dialects :
          LET r == NewRepositoryOf(built.type, RepoTable, d) IN
          built' = [built EXCEPT !.done = TRUE, !.handle = r.handle, !.err = r.err]
    /\ UNCHANGED <<builderVars, mapperVars, selVars, repoVars, listVars>>

TypeNext == CallNewRepository

TypeSpec == TypeInit /\ [][TypeNext]_vars

\* ------------------------------------------------------------------ claims

\* C1: in the Postgres dialect, after any sequence of successfully applied
\* options, the placeholder tokens of the WHERE fragments, read left to right
\* in fragment order, are numbered 1, 2, ..., n, n the number of arguments.
C1_SequentialNumbering ==
    qb.dialect = "postgres" => WhereNumbers(qb) = [i \in 1..Len(qb.args) |-> i]

\* C2: after any sequence of successfully applied options, the number of
\* placeholder markers in the WHERE fragments equals the number of arguments.
C2_MarkersMatchArgs == MarkerCount(qb) = Len(qb.args)

IsPrefix(s, t) == Len(s) <= Len(t) /\ SubSeq(t, 1, Len(s)) = s
DropFirst(s, n) == SubSeq(s, n + 1, Len(s))

\* f is clause with its i-th "?" replaced by the placeholder of position
\* idx + i - 1 and every other atom kept
RECURSIVE RawMatches(_, _, _, _)
RawMatches(d, clause, f, idx) ==
    IF Len(clause) = 0 THEN Len(f) = 0
    ELSE IF Head(clause) = "?"
    THEN LET ph == Placeholder(d, idx) IN
         /\ IsPrefix(ph, f)
         /\ RawMatches(d, Tail(clause), DropFirst(f, Len(ph)), idx + 1)
    ELSE /\ Len(f) > 0
         /\ Head(f) = Head(clause)
         /\ RawMatches(d, Tail(clause), Tail(f), idx)

\* C4: a raw Where clause with k "?" and k values, applied to a queryBuilder
\* holding n arguments, appends one fragment that is the clause with its i-th
\* "?" replaced by the placeholder of position n+i and every other character
\* kept, and appends the k values in the given order.
C4_RawSubstitution ==
    (lastOpt.type = "rawWhere" /\ CountAtom(lastOpt.clause, "?") = Len(lastOpt.args))
        => /\ err = NilErr
           /\ qb.whereClauses = Append(prev.whereClauses,
                                       qb.whereClauses[Len(qb.whereClauses)])
           /\ RawMatches(qb.dialect, lastOpt.clause,
                         qb.whereClauses[Len(qb.whereClauses)], Len(prev.args) + 1)
           /\ qb.args = prev.args \o lastOpt.args

C4_Witness ==
    /\ lastOpt.type = "rawWhere"
    /\ err = NilErr
    /\ qb.dialect = "postgres"
    /\ Len(prev.args) >= 1
    /\ Len(lastOpt.args) = 2
    /\ lastOpt.args[1] # lastOpt.args[2]

\* C5: a raw Where clause whose number of "?" differs from the number of
\* values fails with an error and leaves the queryBuilder as it was.
C5_RawMismatch ==
    (lastOpt.type = "rawWhere" /\ CountAtom(lastOpt.clause, "?") # Len(lastOpt.args))
        => /\ err # NilErr
           /\ qb = prev

C5_Witness ==
    /\ lastOpt.type = "rawWhere"
    /\ CountAtom(lastOpt.clause, "?") = 2
    /\ Len(lastOpt.args) = 1
    /\ err # NilErr
    /\ Len(prev.whereClauses) = 1

\* the first option of opts that is a membership filter without values
FirstEmptyIn(opts) ==
    CHOOSE i \in 1..Len(opts) :
        /\ opts[i].type = "in" /\ Len(opts[i].args) = 0
        /\ \A j \in 1..(i - 1) : ~(opts[j].type = "in" /\ Len(opts[j].args) = 0)

HasEmptyIn(opts) == \E i \in 1..Len(opts) : opts[i].type = "in" /\ Len(opts[i].args) = 0

\* C6: a membership filter with zero values fails when applied, with an error
\* that names the column, and adds no WHERE fragment and no argument; List
\* called with it returns that error.
C6_EmptyIn ==
    /\ (lastOpt.type = "in" /\ Len(lastOpt.args) = 0)
        => /\ err # NilErr
           /\ err.arg = lastOpt.column
           /\ qb = prev
    /\ (listRet.called /\ HasEmptyIn(listRet.opts))
        => /\ listRet.err # NilErr
           /\ listRet.err = err
           /\ lastOpt = listRet.opts[FirstEmptyIn(listRet.opts)]
           /\ Len(applied) = FirstEmptyIn(listRet.opts) - 1

C6_Witness ==
    /\ listRet.called
    /\ Len(listRet.opts) = 2
    /\ listRet.opts[1].type = "in"
    /\ Len(listRet.opts[1].args) = 1
    /\ listRet.opts[2].type = "in"
    /\ Len(listRet.opts[2].args) = 0
    /\ listRet.err.arg = listRet.opts[2].column
    /\ Len(qb.whereClauses) = 1

AppliedOfType(t) == \E i \in 1..Len(applied) : applied[i].type = t

\* C7 as stated: no later option removes or replaces anything an earlier
\* option contributed, the LIMIT, OFFSET and LOCK values included.
C7_NothingReplaced ==
    [][/\ IsPrefix(qb.whereClauses, qb'.whereClauses)
       /\ IsPrefix(qb.args, qb'.args)
       /\ IsPrefix(qb.joinClauses, qb'.joinClauses)
       /\ IsPrefix(qb.orderByClauses, qb'.orderByClauses)
       /\ IsPrefix(qb.relations, qb'.relations)
       /\ (AppliedOfType("limit") => qb'.limit = qb.limit)
       /\ (AppliedOfType("offset") => qb'.offset = qb.offset)
       /\ (AppliedOfType("lock") => qb'.lockClause = qb.lockClause)]_vars

\* the value of the last applied option of type t, or the zero value
RECURSIVE LastOfType(_, _, _)
LastOfType(opts, t, zero) ==
    IF Len(opts) = 0 THEN zero
    ELSE LET o == opts[Len(opts)] IN
         IF o.type = t THEN (IF t = "lock" THEN o.clause ELSE o.n)
         ELSE LastOfType(SubSeq(opts, 1, Len(opts) - 1), t, zero)

\* C7 amended: WHERE fragments, arguments, JOIN fragments, ORDER BY fragments
\* and relation requests are only ever appended to; LIMIT, OFFSET and LOCK
\* hold the value of the most recently applied option of their kind.
C7_AppendOnlyLastWins ==
    /\ [][/\ IsPrefix(qb.whereClauses, qb'.whereClauses)
          /\ IsPrefix(qb.args, qb'.args)
          /\ IsPrefix(qb.joinClauses, qb'.joinClauses)
          /\ IsPrefix(qb.orderByClauses, qb'.orderByClauses)
          /\ IsPrefix(qb.relations, qb'.relations)]_vars
    /\ [](/\ qb.limit = LastOfType(applied, "limit", 0)
          /\ qb.offset = LastOfType(applied, "offset", 0)
          /\ qb.lockClause = LastOfType(applied, "lock", <<>>))

C7_Witness ==
    /\ Len(applied) = 2
    /\ applied[1].type = "limit"
    /\ applied[2].type = "limit"
    /\ applied[1].n # applied[2].n
    /\ qb.limit = applied[2].n

\* Where has been called and the option it returned applied
WhereCalled == Len(whereArgs) > 0 \/ applied # <<>> \/ err # NilErr

IsRawOf(o, a) ==
    o.type = "rawWhere" /\ o.clause = a[1].v /\ o.args = Tail(a)

IsOperatorOf(o, a) ==
    /\ o.type = "operatorWhere"
    /\ o.column = a[1].v /\ o.operator = a[2].v /\ o.args = <<a[3]>>
    /\ err = NilErr
    /\ qb.args = <<a[3]>>
    /\ qb.whereClauses =
        <<a[1].v \o <<" ">> \o a[2].v \o <<" ">> \o Placeholder(qb.dialect, 1)>>

IsEqualityOf(o, a) ==
    /\ o.type = "simpleWhere"
    /\ o.column = a[1].v /\ o.args = <<a[2]>>
    /\ err = NilErr
    /\ qb.args = <<a[2]>>
    /\ qb.whereClauses = <<a[1].v \o <<" = ">> \o Placeholder(qb.dialect, 1)>>

IsSilentNoOp(o) == o.type = "noOp" /\ err = NilErr /\ qb = prev

\* C3 as stated: a string first argument containing "?" gives a raw clause
\* bound to the remaining arguments; otherwise exactly three arguments with a
\* string second argument give (column, operator, value); otherwise exactly
\* two arguments give (column, value); every other list gives a silent no-op.
C3_Precedence ==
    WhereCalled =>
        LET a == whereArgs IN
        IF Len(a) >= 1 /\ a[1].kind = "string" /\ Contains(a[1].v, "?")
        THEN IsRawOf(lastOpt, a)
        ELSE IF Len(a) = 3 /\ a[2].kind = "string"
        THEN IsOperatorOf(lastOpt, a)
        ELSE IF Len(a) = 2
        THEN IsEqualityOf(lastOpt, a)
        ELSE IsSilentNoOp(lastOpt)

\* C3 amended: the (column, operator, value) and (column, value) forms also
\* require the first argument to be a string; an argument list whose first
\* argument is not a string gives the silent no-op whatever its length.
C3_PrecedenceStringFirst ==
    WhereCalled =>
        LET a == whereArgs IN
        IF Len(a) >= 1 /\ a[1].kind = "string" /\ Contains(a[1].v, "?")
        THEN IsRawOf(lastOpt, a)
        ELSE IF Len(a) = 3 /\ a[1].kind = "string" /\ a[2].kind = "string"
        THEN IsOperatorOf(lastOpt, a)
        ELSE IF Len(a) = 2 /\ a[1].kind = "string"
        THEN IsEqualityOf(lastOpt, a)
        ELSE IsSilentNoOp(lastOpt)

C3_Witness ==
    /\ Len(whereArgs) = 2
    /\ whereArgs[1].kind = "int"
    /\ applied = <<noOpOption>>
    /\ Len(qb.whereClauses) = 0

\* ---------------------------------------------------------- mapper claims
Configured(m) == m.Fetcher /\ m.GetFK /\ m.GetPK /\ m.SetRelated

\* the SetRelated calls made for parent i
CallsFor(i) ==
    LET Mine(c) == c.parent = i IN SelectSeq(setLog, Mine)

\* the fetched records whose foreign key is k, in fetch order
ChildrenOf(k) ==
    LET Mine(r) == r.fk = k IN SelectSeq(fetched.related, Mine)

\* C8: when its Fetcher succeeds, OneToManyMapper.Process succeeds and calls
\* SetRelated exactly once for every parent, with exactly the fetched records
\* whose foreign key is the parent's primary key, in fetch order; a parent
\* without such a record gets an empty non-nil collection.
C8_OneToManyGroups ==
    (ret.done /\ mapper.kind = "OneToMany" /\ Configured(mapper)
              /\ fetched.err = NilErr)
        => /\ ret.err = NilErr
           /\ Len(setLog) = Len(parents)
           /\ \A i \in 1..Len(parents) :
                /\ Len(CallsFor(i)) = 1
                /\ ~CallsFor(i)[1].isNil
                /\ CallsFor(i)[1].rels = ChildrenOf(parents[i].pk)

C8_Witness ==
    /\ ret.done
    /\ mapper.kind = "OneToMany"
    /\ ret.err = NilErr
    /\ Len(parents) = 2
    /\ Len(setLog) = 2
    /\ Len(setLog[1].rels) = 2
    /\ setLog[1].rels[1] # setLog[1].rels[2]
    /\ setLog[2].rels = <<>>
    /\ ~setLog[2].isNil

\* the fetched records that correlate with parent p under mapper kind
MatchesOf(p) ==
    {j \in 1..Len(fetched.related) :
        IF mapper.kind = "ManyToOne"
        THEN fetched.related[j].pk = p.fk
        ELSE fetched.related[j].fk = p.pk}

\* C9: when the Fetcher does not fail, ManyToOneMapper.Process and
\* HasOneMapper.Process succeed; a parent with a fetched record of its key
\* (primary key = the parent's foreign key for many-to-one, correlating key =
\* the parent's primary key for has-one) gets one SetRelated call with such
\* a record, and a parent without one gets no SetRelated call.
C9_SingleAttach ==
    (ret.done /\ mapper.kind \in {"ManyToOne", "HasOne"} /\ Configured(mapper)
              /\ fetched.err = NilErr)
        => /\ ret.err = NilErr
           /\ \A i \in 1..Len(parents) :
                IF MatchesOf(parents[i]) # {}
                THEN /\ Len(CallsFor(i)) = 1
                     /\ \E j \in MatchesOf(parents[i]) :
                            CallsFor(i)[1].rels = <<fetched.related[j]>>
                ELSE CallsFor(i) = <<>>

C9_Witness ==
    /\ ret.done
    /\ mapper.kind = "HasOne"
    /\ ret.err = NilErr
    /\ Len(parents) = 2
    /\ Len(fetched.related) = 2
    /\ fetched.related[1].pk = fetched.related[1].fk
    /\ fetched.related[2].pk # fetched.related[2].fk
    /\ Len(setLog) = 1
    /\ setLog[1].parent = 2

ConfigurationErrorOf(kind) ==
    CASE kind = "ManyToOne" -> Errorf("ManyToOneMapper is not fully configured", <<>>)
      [] kind = "OneToMany" -> Errorf("OneToManyMapper is not fully configured", <<>>)
      [] kind = "HasOne" -> Errorf("HasOneMapper is not fully configured", <<>>)

\* C10: Process of the three mappers returns a configuration error whenever
\* one of the Fetcher, key or SetRelated callbacks is unset, for every parent
\* batch, the empty one included, and invokes no callback then.
C10_Unconfigured ==
    (ret.done /\ ~Configured(mapper))
        => /\ ret.err = ConfigurationErrorOf(mapper.kind)
           /\ fetchLog = <<>>
           /\ setLog = <<>>
           /\ keyCalls = 0

C10_Witness ==
    /\ ret.done
    /\ mapper.kind = "OneToMany"
    /\ mapper.Fetcher /\ mapper.GetFK /\ mapper.GetPK /\ ~mapper.SetRelated
    /\ parents = <<>>
    /\ ret.err # NilErr

FetchErrorOf(kind, e) ==
    CASE kind = "ManyToOne" ->
            Errorf("failed to fetch related entities for ManyToOne: %w", <<e.text>>)
      [] kind = "OneToMany" ->
            Errorf("failed to fetch related entities for OneToMany: %w", <<e.text>>)
      [] kind = "HasOne" ->
            Errorf("failed to fetch related entities for HasOne: %w", <<e.text>>)

\* C11: when the Fetcher returns an error, Process of the three mappers
\* returns an error that wraps it and names the relation kind, and makes no
\* SetRelated call.
C11_FetchErrorWrapped ==
    (ret.done /\ fetched.err # NilErr)
        => /\ ret.err = FetchErrorOf(mapper.kind, fetched.err)
           /\ ret.err.arg = <<FetchFailure.text>>
           /\ Len(fetchLog) = 1
           /\ setLog = <<>>

C11_Witness ==
    /\ ret.done
    /\ mapper.kind = "ManyToOne"
    /\ Len(parents) = 2
    /\ parents[1].fk # 0
    /\ fetched.err = FetchFailure
    /\ ret.err # NilErr
    /\ setLog = <<>>

\* --------------------------------------------------------- statement claims
\* where sub first occurs in text, 0 when it does not
FindSub(text, sub) ==
    LET hits == {i \in 1..(Len(text) - Len(sub) + 1) :
                    SubSeq(text, i, i + Len(sub) - 1) = sub}
    IN IF Len(sub) = 0 \/ hits = {} THEN 0
       ELSE CHOOSE i \in hits : \A j \in hits : i <= j

IsSuffix(s, t) == Len(s) <= Len(t) /\ SubSeq(t, Len(t) - Len(s) + 1, Len(t)) = s

\* the clauses of the statement sel.sql in the claimed order: whether the
\* inputs ask for the clause, and where its text starts (0: nowhere)
SelectClauses ==
    <<[present |-> sel.joins # <<>>,
       pos |-> IF sel.joins = <<>> THEN 0
               ELSE FindSub(sel.sql, <<" ">> \o sel.joins)],
      [present |-> sel.whereClause # <<>>,
       pos |-> FindSub(sel.sql, <<" WHERE ">> \o sel.whereClause)],
      [present |-> sel.orderByClause # <<>>,
       pos |-> FindSub(sel.sql, <<" ORDER BY ">> \o sel.orderByClause)],
      [present |-> sel.limit > 0,
       pos |-> FindSub(sel.sql, <<" LIMIT ">>)],
      [present |-> sel.offset > 0,
       pos |-> FindSub(sel.sql, <<" OFFSET ">>)],
      [present |-> sel.lockClause # <<>>,
       pos |-> IF sel.lockClause = <<>> THEN 0
               ELSE FindSub(sel.sql, <<" ">> \o sel.lockClause)]>>

\* C20: in the three dialects and for all inputs, SelectSQL emits the clauses
\* that are present, and only those, in the order JOIN, WHERE, ORDER BY,
\* LIMIT, OFFSET, lock; a non-empty lock clause is the end of the statement.
C20_SelectOrder ==
    sel.done =>
        /\ \A i \in 1..6 : SelectClauses[i].present <=> SelectClauses[i].pos > 0
        /\ \A i, j \in 1..6 :
              (i < j /\ SelectClauses[i].present /\ SelectClauses[j].present)
                  => SelectClauses[i].pos < SelectClauses[j].pos
        /\ sel.lockClause # <<>> => IsSuffix(<<" ">> \o sel.lockClause, sel.sql)

C20_Witness ==
    /\ sel.done
    /\ sel.dialect = "postgres"
    /\ \A i \in 1..6 : SelectClauses[i].present
    /\ IsSuffix(<<" LIMIT ", "1", " OFFSET ", "1", " ", "FOR UPDATE">>, sel.sql)

\* -------------------------------------------------------- repository claims
\* the handle of the last call, and the rows it sees
CallHandle == HandleOf(call.on)
CallView == Executor(CallHandle).table
RowsOf(table, k) == {r \in table : r.id = k}

\* C12: after CreateOrUpdate(item) with key k, also when a row with key k and
\* other field values was there before, there is exactly one row with key k,
\* it holds the values of item, and the same call once more changes nothing.
C12_UpsertConverges ==
    call.op = "CreateOrUpdate" =>
        LET again == RepoCreateOrUpdate(CallHandle, call.item, Executor(CallHandle)) IN
        /\ call.err = NilErr
        /\ call.ret = call.item
        /\ RowsOf(CallView, call.item.id) = {Row(call.item.id, call.item.name)}
        /\ again.err = NilErr
        /\ again.table = CallView

C12_Witness ==
    /\ call.op = "CreateOrUpdate"
    /\ call.err = NilErr
    /\ \E r \in call.before : r.id = call.item.id /\ r.name # call.item.name
    /\ Cardinality(CallView) = Cardinality(call.before)

\* what GetByID(id) without options returns on the handle of the last call
GetNow(id) == RepoGetByID(CallHandle, id, <<>>, Executor(CallHandle))

\* C13: a successful Create of an item with a zero key returns the item with a
\* non-zero key under which GetByID finds the same field values; a successful
\* Create of an item with a non-zero key returns the item with exactly that
\* key.
C13_CreateKey ==
    (call.op = "Create" /\ call.err = NilErr) =>
        /\ call.item.id = 0 =>
              /\ call.ret.id # 0
              /\ call.ret = [call.item EXCEPT !.id = call.ret.id]
              /\ GetNow(call.ret.id).err = NilErr
              /\ GetNow(call.ret.id).ret = call.ret
        /\ call.item.id # 0 => call.ret = call.item

\* a key generated next to a row that was there
C13_Witness ==
    /\ call.op = "Create"
    /\ call.err = NilErr
    /\ call.item.id = 0
    /\ call.ret.id > 1
    /\ \E r \in call.before : r.id # call.ret.id /\ r.name # call.item.name

\* the key the last call was about
CallKey == IF call.op \in {"GetByID", "Delete"} THEN call.id ELSE call.item.id

\* C14: Update(item), Delete(id) and GetByID(id) for a key no row has each
\* return the "no rows" error and leave the table as it was.
C14_AbsentKeyNotFound ==
    (/\ call.op \in {"Update", "Delete", "GetByID"}
     /\ ~call.item.nilPK
     /\ RowsOf(call.before, CallKey) = {})
        => /\ call.err = ErrNoRows
           /\ call.ret = ZeroItem
           /\ CallView = call.before

C14_Witness ==
    /\ call.op = "Update"
    /\ ~call.item.nilPK
    /\ RowsOf(call.before, CallKey) = {}
    /\ \E r \in call.before : r.name = CallKey
    /\ call.err = ErrNoRows

\* C15: Update of an item whose key is a nil pointer fails with "primary key
\* value not found in item to update", executes no statement and changes no
\* row.
C15_NilKeyUpdate ==
    (call.op = "Update" /\ call.item.nilPK) =>
        /\ call.err = MissingKeyError
        /\ call.err.text = "primary key value not found in item to update"
        /\ call.stmts = <<>>
        /\ CallView = call.before

C15_Witness ==
    /\ call.op = "Update"
    /\ call.item.nilPK
    /\ call.before # {}
    /\ call.err = MissingKeyError

\* the rows of a table with a key other than k
OtherRows(table, k) == {r \in table : r.id # k}

\* C16: after a successful Update(item), GetByID of the item's key returns a
\* record equal to item in every mapped column, the key of the row is the one
\* it had, and the rows with other keys are as they were.
C16_UpdateStores ==
    (call.op = "Update" /\ call.err = NilErr) =>
        /\ call.ret = call.item
        /\ GetNow(call.item.id).err = NilErr
        /\ GetNow(call.item.id).ret = call.item
        /\ {r.id : r \in CallView} = {r.id : r \in call.before}
        /\ OtherRows(CallView, call.item.id) = OtherRows(call.before, call.item.id)

C16_Witness ==
    /\ call.op = "Update"
    /\ call.err = NilErr
    /\ \E r \in call.before : r.id = call.item.id /\ r.name # call.item.name
    /\ \E r \in call.before : r.id # call.item.id /\ r.name = call.item.id

\* what Delete(id) returns on the handle of the last call
DeleteNow(id) == RepoDelete(CallHandle, id, Executor(CallHandle))

\* C17: after a successful Delete(id), GetByID(id) returns the "no rows"
\* error, a second Delete(id) returns the "no rows" error, and the rows with
\* other keys are as they were.
C17_DeleteRemoves ==
    (call.op = "Delete" /\ call.err = NilErr) =>
        /\ GetNow(call.id).err = ErrNoRows
        /\ DeleteNow(call.id).err = ErrNoRows
        /\ DeleteNow(call.id).table = CallView
        /\ RowsOf(CallView, call.id) = {}
        /\ OtherRows(CallView, call.id) = OtherRows(call.before, call.id)

C17_Witness ==
    /\ call.op = "Delete"
    /\ call.err = NilErr
    /\ RowsOf(call.before, call.id) # {}
    /\ \E r \in CallView : r.name = call.id

RepoOps == {"Create", "CreateOrUpdate", "GetByID", "Update", "Delete"}

\* C18: WithTx(tx) returns a handle with the mapping, the dialect and the
\* table of the receiver, bound to tx, and leaves the receiver as it was; a
\* call on the receiver afterwards, also between calls on the new handle,
\* runs on the connection: it sees the committed rows and leaves the
\* transaction as it is.
C18_WithTxNewHandle ==
    [][/\ call'.op = "WithTx" =>
            /\ repo' = call'.recv
            /\ call'.recv = repo
            /\ txRepo' = [repo EXCEPT !.exec = "tx"]
            /\ txRepo' # repo'
       /\ (call'.op \in RepoOps /\ call'.on = "repo") =>
            /\ repo' = repo
            /\ call'.exec = "db"
            /\ call'.before = rows
            /\ tx' = tx]_vars

\* a row created on the receiver between writes of the open transaction
C18_Witness ==
    /\ call.op = "Create"
    /\ call.on = "repo"
    /\ call.err = NilErr
    /\ txRepo # NoHandle
    /\ tx.state = "open"
    /\ tx.ins # {}
    /\ Row(call.ret.id, call.ret.name) \in rows
    /\ call.ret.id \notin tx.touched

\* what GetByID(id) without options returns on the handle of the connection
GetBase(id) == RepoGetByID(repo, id, <<>>, Executor(repo))

SelectUnbounded ==
    SelectSQL(sel.dialect, SelectTable, SelectColumns, sel.joins, sel.whereClause,
              sel.orderByClause, sel.lockClause, 0, 0)

\* the text a bound adds: nothing when it is not positive
BoundText(keyword, n) == IF n > 0 THEN <<keyword>> \o Itoa(n) ELSE <<>>

\* C21: the statement of SelectSQL holds a LIMIT clause exactly when limit > 0
\* and an OFFSET clause exactly when offset > 0; a limit or an offset that is
\* zero or negative adds no text: the statement is the one for no bound, with
\* the clauses of the positive bounds put in before the lock clause.
C21_BoundsOmitted ==
    sel.done =>
        LET lock == IF sel.lockClause = <<>> THEN <<>> ELSE <<" ">> \o sel.lockClause
            head == SubSeq(SelectUnbounded, 1, Len(SelectUnbounded) - Len(lock))
        IN /\ Contains(sel.sql, " LIMIT ") <=> sel.limit > 0
           /\ Contains(sel.sql, " OFFSET ") <=> sel.offset > 0
           /\ sel.sql = head \o BoundText(" LIMIT ", sel.limit)
                             \o BoundText(" OFFSET ", sel.offset) \o lock
           /\ (sel.limit <= 0 /\ sel.offset <= 0) => sel.sql = SelectUnbounded

C21_Witness ==
    /\ sel.done
    /\ sel.limit < 0
    /\ sel.offset = 0
    /\ sel.lockClause # <<>>
    /\ sel.whereClause # <<>>
    /\ ~Contains(sel.sql, " LIMIT ")
    /\ ~Contains(sel.sql, " OFFSET ")

\* text cut at every atom sep: the pieces between, none for the empty text
RECURSIVE SplitOn(_, _)
SplitOn(text, sep) ==
    IF Len(text) = 0 THEN <<>>
    ELSE LET i == IndexOf(text, sep) IN
         IF i = 0 THEN <<text>>
         ELSE <<SubSeq(text, 1, i - 1)>> \o SplitOn(SubSeq(text, i + 1, Len(text)), sep)

\* the last atom before the conflict-update list in dialect d
UpdateListIntro(d) ==
    IF d = "mysql" THEN ") ON DUPLICATE KEY UPDATE " ELSE ") DO UPDATE SET "
\* the first atom after the placeholders in dialect d
ValuesEnd(d) ==
    CASE d = "mysql" -> ") ON DUPLICATE KEY UPDATE "
      [] d = "sqlite" -> ") ON CONFLICT("
      [] d = "postgres" -> ") ON CONFLICT ("
\* column col set to the incoming value of column col, in dialect d
IncomingAssignment(d, col) ==
    CASE d = "mysql" -> col \o <<" = VALUES(">> \o col \o <<")">>
      [] d = "sqlite" -> col \o <<" = excluded.">> \o col
      [] d = "postgres" -> col \o <<" = EXCLUDED.">> \o col

\* C22: in the three dialects and for every column list, the conflict-update
\* list of UpsertSQL holds one assignment for every column but the key column,
\* in column-list order, each setting the column to the incoming value of the
\* same column, and none for the key column; the insert part lists every
\* column, with one placeholder each.
C22_UpsertLists ==
    ups.done =>
        LET d == ups.dialect
            NotKey(c) == c # ups.pkColumn
            others == SelectSeq(ups.cols, NotKey)
            updates == SplitOn(After(ups.sql, UpdateListIntro(d)), ", ")
            inserted == SplitOn(Before(After(ups.sql, " ("), ") VALUES ("), ", ")
            values == SplitOn(Before(After(ups.sql, ") VALUES ("), ValuesEnd(d)), ", ")
        IN /\ updates = [i \in 1..Len(others) |-> IncomingAssignment(d, others[i])]
           /\ \A i \in 1..Len(updates) : updates[i][1] # ups.pkColumn[1]
           /\ inserted = ups.cols
           /\ values = [i \in 1..Len(ups.cols) |-> Placeholder(d, i)]
           /\ Before(ups.sql, " (") = <<"INSERT INTO ">> \o SelectTable

\* the key column in the middle of three columns
C22_Witness ==
    /\ ups.done
    /\ Len(ups.cols) = 3
    /\ ups.cols[2] = ups.pkColumn
    /\ ups.dialect = "postgres"
    /\ SplitOn(After(ups.sql, UpdateListIntro("postgres")), ", ")
           = <<IncomingAssignment("postgres", ups.cols[1]),
               IncomingAssignment("postgres", ups.cols[3])>>

\* ------------------------------------------------------ construction claims
CountTag(T, tags) == Cardinality({i \in 1..Len(T.fields) : T.fields[i].tag \in tags})
ConfigurationErrors(T) == {ErrNotStruct(T), ErrNoTags(T), ErrMultiplePK(T), ErrNoPK(T)}

\* C23: NewRepository succeeds exactly for a struct type with at least one
\* mapped field and exactly one field marked as the key; for a type that is no
\* struct, a struct with no mapped field, with several key fields or with no
\* key field it returns a configuration error that names the type, and no
\* handle.
C23_Construction ==
    built.done =>
        LET T == built.type
            valid == /\ T.kind = "struct"
                     /\ CountTag(T, {"column", "pk"}) >= 1
                     /\ CountTag(T, {"pk"}) = 1
        IN /\ built.err = NilErr <=> valid
           /\ valid => /\ built.handle # NoHandle
                       /\ Len(built.handle.columns) = CountTag(T, {"column", "pk"})
                       /\ \E i \in 1..Len(T.fields) :
                             /\ T.fields[i].tag = "pk"
                             /\ T.fields[i].column = built.handle.pkColumn
           /\ ~valid => /\ built.handle = NoHandle
                        /\ built.err \in ConfigurationErrors(T)
                        /\ built.err.arg = <<T.name>>
           /\ T.kind # "struct" => built.err = ErrNotStruct(T)
           /\ (T.kind = "struct" /\ CountTag(T, {"pk"}) > 1) => built.err = ErrMultiplePK(T)

\* a struct with a mapped field between two key fields
C23_Witness ==
    /\ built.done
    /\ Len(built.type.fields) = 3
    /\ built.type.fields[1].tag = "pk"
    /\ built.type.fields[2].tag = "column"
    /\ built.type.fields[3].tag = "pk"
    /\ built.err = ErrMultiplePK(built.type)
    /\ built.handle = NoHandle

\* ------------------------------------------------------- injection claims
\* values a caller may bind: a string of quote and comment characters, and a
\* string that is the placeholder marker
HostileValues == {StrArg(<<"x' OR 1=1 --">>), StrArg(<<"?">>)}

\* the options opts with their bound values replaced, left to right, by the
\* values w[k + 1], w[k + 2], ...
RECURSIVE Revalue(_, _, _)
Revalue(opts, w, k) ==
    IF Len(opts) = 0 THEN <<>>
    ELSE LET o == Head(opts) IN
         <<[o EXCEPT !.args = [i \in 1..Len(o.args) |-> w[k + i]]]>>
             \o Revalue(Tail(opts), w, k + Len(o.args))

\* all the text a queryBuilder holds, and the SELECT statement made of it
TextOf(q) ==
    [whereClauses |-> q.whereClauses, joinClauses |-> q.joinClauses,
     orderByClauses |-> q.orderByClauses, lockClause |-> q.lockClause,
     limit |-> q.limit, offset |-> q.offset,
     sql |-> SelectSQL(q.dialect, SelectTable, SelectColumns,
                       Join(q.joinClauses, <<" ">>), Join(q.whereClauses, <<" AND ">>),
                       Join(q.orderByClauses, <<", ">>), q.lockClause, q.limit, q.offset)]

RefusedCall == call.op = "Update" /\ call.item.nilPK

NoKeys ==
    \/ Len(parents) = 0
    \/ mapper.kind = "ManyToOne" /\ \A i \in 1..Len(parents) : parents[i].fk = 0

\* C26: one Process call of any of the three mappers calls the Fetcher at
\* most once, whatever the number of parents, and not at all when the batch
\* is empty or, for many-to-one, when no parent has a non-zero foreign key;
\* a fully configured mapper then returns success and calls no SetRelated.
C26_OneFetch ==
    ret.done =>
        /\ Len(fetchLog) <= 1
        /\ NoKeys => fetchLog = <<>>
        /\ (NoKeys /\ Configured(mapper)) => (ret.err = NilErr /\ setLog = <<>>)

C26_Witness ==
    /\ ret.done
    /\ Configured(mapper)
    /\ mapper.kind = "ManyToOne"
    /\ Len(parents) = 2
    /\ NoKeys
    /\ fetchLog = <<>>
    /\ ret.err = NilErr

\* the positions of the parents whose foreign key is non-zero and held by no
\* earlier parent
FirstOccurrences ==
    {i \in 1..Len(parents) :
        /\ parents[i].fk # 0
        /\ \A j \in 1..(i - 1) : parents[j].fk # parents[i].fk}

\* C27: when ManyToOneMapper.Process calls the Fetcher, the key list it
\* passes holds exactly the non-zero foreign keys of the parents, each once,
\* in the order of their first occurrence among the parents.
C27_DistinctKeys ==
    (ret.done /\ mapper.kind = "ManyToOne" /\ Len(fetchLog) > 0) =>
        LET keys == fetchLog[1] IN
        /\ {keys[i] : i \in 1..Len(keys)} = {parents[i].fk : i \in 1..Len(parents)} \ {0}
        /\ Len(keys) = Cardinality(FirstOccurrences)
        /\ \A a, b \in 1..Len(keys) :
               a < b => \E i, j \in FirstOccurrences :
                           /\ i < j
                           /\ parents[i].fk = keys[a]
                           /\ parents[j].fk = keys[b]

C27_Witness ==
    /\ ret.done
    /\ mapper.kind = "ManyToOne"
    /\ Len(parents) = 2
    /\ parents[1].fk = 2
    /\ parents[2].fk = 2
    /\ fetchLog = <<<<2>>>>

\* C30: when the Fetcher returns several records of one key (the primary
\* key for many-to-one, the correlating foreign key for has-one),
\* ManyToOneMapper.Process and HasOneMapper.Process succeed and hand to
\* SetRelated, for every parent of that key, the record that comes last in
\* the fetch result.
C30_LastWins ==
    (ret.done /\ mapper.kind \in {"ManyToOne", "HasOne"} /\ Configured(mapper)
              /\ Len(fetchLog) > 0 /\ fetched.err = NilErr) =>
        /\ ret.err = NilErr
        /\ \A i \in 1..Len(parents) :
               MatchesOf(parents[i]) # {} =>
                   /\ Len(CallsFor(i)) = 1
                   /\ CallsFor(i)[1].rels =
                          <<fetched.related[MaxOf(MatchesOf(parents[i]))]>>

C30_Witness ==
    /\ ret.done
    /\ mapper.kind = "HasOne"
    /\ ret.err = NilErr
    /\ Len(parents) > 0
    /\ Len(fetched.related) = 2
    /\ fetched.related[1].fk = parents[1].pk
    /\ fetched.related[2].fk = parents[1].pk
    /\ fetched.related[1].pk # fetched.related[2].pk
    /\ Len(setLog) > 0
    /\ setLog[1].parent = 1
    /\ setLog[1].rels = <<fetched.related[2]>>
\* ------------------------------------------------------------ list claims
\* the relations of the relation options among opts, in option order
RECURSIVE RelationsOf(_)
RelationsOf(opts) ==
    IF Len(opts) = 0 THEN <<>>
    ELSE (IF Head(opts).type = "relation" THEN <<Head(opts).relation>> ELSE <<>>)
             \o RelationsOf(Tail(opts))

ScanEvents == LET IsScan(e) == e.event = "scan" IN SelectSeq(listed.trace, IsScan)
ProcessEvents == LET IsProcess(e) == e.event = "process" IN SelectSeq(listed.trace, IsProcess)

\* C28: in a call of List every Process call comes after every row scan and
\* is handed the whole batch of scanned records; the relations processed
\* are a prefix of the relations of the relation options, in option order;
\* when List returns without error, every relation option's relation has
\* been processed exactly once, in option order, and the batch is what List
\* returns.
C28_RelationsAfterScan ==
    listed.done =>
        LET n == Len(ScanEvents)
            batch == [i \in 1..n |-> ScanEvents[i].batch[1]]
            processed == [i \in 1..Len(ProcessEvents) |-> ProcessEvents[i].relation]
        IN /\ listed.trace = ScanEvents \o ProcessEvents
           /\ \A i \in 1..Len(ProcessEvents) : ProcessEvents[i].batch = batch
           /\ IsPrefix(processed, RelationsOf(listed.opts))
           /\ listed.err = NilErr =>
                 /\ processed = RelationsOf(listed.opts)
                 /\ listed.items = batch

C28_Witness ==
    /\ listed.done
    /\ listed.err = NilErr
    /\ Len(listed.items) = 2
    /\ Len(listed.opts) = 2
    /\ listed.opts[1] = WithRelation("rel2")
    /\ listed.opts[2] = WithRelation("rel1")
    /\ Len(listed.trace) = 4
    /\ listed.trace[3] = ListEvent("process", "rel2", listed.items)
    /\ listed.trace[4] = ListEvent("process", "rel1", listed.items)
\* ----------------------------------------------------------- order claims
WhereTypes == {"simpleWhere", "operatorWhere", "in", "like", "subquery", "rawWhere"}

\* the options of the types in T among opts, in the order of opts
OptionsOfType(opts, T) == LET OfType(o) == o.type \in T IN SelectSeq(opts, OfType)

\* the bound values of opts, option after option
RECURSIVE BoundValues(_)
BoundValues(opts) ==
    IF Len(opts) = 0 THEN <<>> ELSE Head(opts).args \o BoundValues(Tail(opts))

\* the position in opts of its i-th option of a type in T
RECURSIVE PositionOf(_, _, _, _)
PositionOf(opts, T, i, at) ==
    IF opts[at].type \in T
    THEN (IF i = 1 THEN at ELSE PositionOf(opts, T, i - 1, at + 1))
    ELSE PositionOf(opts, T, i, at + 1)

\* the WHERE fragment option o writes when n values are bound before it
FragmentOf(o, n) ==
    LET ph == Placeholder(qb.dialect, n + 1) IN
    CASE o.type = "simpleWhere" -> o.column \o <<" = ">> \o ph
      [] o.type = "operatorWhere" -> o.column \o <<" ">> \o o.operator \o <<" ">> \o ph
      [] o.type = "like" -> o.column \o <<" LIKE ">> \o ph
      [] o.type = "in" ->
            o.column \o <<" IN (">>
                \o Join([i \in 1..Len(o.args) |-> Placeholder(qb.dialect, n + i)], <<",">>)
                \o <<")">>
      [] o.type = "subquery" ->
            o.column \o <<" ">> \o o.operator \o <<" (">> \o o.clause \o <<")">>

\* C29: after any sequence of successfully applied options, the JOIN
\* fragments are the join clauses of the join options in application order,
\* the ORDER BY fragments are "column direction" of the sort options in
\* application order, the WHERE fragments are one per filter option in
\* application order (for a raw clause: the clause with its markers
\* replaced), and the argument list is the concatenation of the options'
\* bound values in application order.
C29_ApplicationOrder ==
    LET joins == OptionsOfType(applied, {"join"})
        sorts == OptionsOfType(applied, {"sort"})
        wheres == OptionsOfType(applied, WhereTypes)
    IN /\ qb.joinClauses = [i \in 1..Len(joins) |-> joins[i].clause]
       /\ qb.orderByClauses =
              [i \in 1..Len(sorts) |-> sorts[i].column \o <<" ">> \o sorts[i].clause]
       /\ Len(qb.whereClauses) = Len(wheres)
       /\ \A i \in 1..Len(wheres) :
              LET n == Len(BoundValues(SubSeq(applied, 1,
                               PositionOf(applied, WhereTypes, i, 1) - 1)))
              IN IF wheres[i].type = "rawWhere"
                 THEN RawMatches(qb.dialect, wheres[i].clause, qb.whereClauses[i], n + 1)
                 ELSE qb.whereClauses[i] = FragmentOf(wheres[i], n)
       /\ qb.args = BoundValues(applied)

C29_Witness ==
    /\ Len(applied) = 2
    /\ applied[1].type = "join"
    /\ applied[2].type = "join"
    /\ applied[1].clause # applied[2].clause
    /\ qb.joinClauses = <<applied[1].clause, applied[2].clause>>
====
